---- MODULE Spec2Model ----
(***************************************************************************)
(* A model of the mdf-rs page reader: the record layer (record.rs), the    *)
(* row binder (types.rs), the record iterators (raw_page.rs) and the table *)
(* scans (table.rs).                                                       *)
(*                                                                         *)
(* Byte buffers are sequences of 0..255; the byte at (0-based) offset k of *)
(* a buffer d is d[k+1].  A borrowed slice &buf[a..b] is a view            *)
(* [pos |-> a, bytes |-> ...]: its position inside the record's buffer and *)
(* its content.  A Rust panic (a failed assert!, unwrap() or slice index)  *)
(* is the outcome Panic; it is never confused with a returned None.        *)
(***************************************************************************)
EXTENDS Integers, Sequences, FiniteSets, TLC

VARIABLES
    \* ---- record layer (record.rs) ----
    rec_in,        \* the input of Record::parse: [data, is_index, p_min_len]
    rec_out,       \* what Record::parse returned for rec_in, or NotCalled
    acc,           \* the last accessor call on the parsed record: [op, idx, res]
    \* ---- row binder (types.rs) ----
    sp_columns,    \* schema.columns of the Schema::parse call
    sp_record,     \* the record passed to Schema::parse
    sp,            \* the locals of Schema::parse: i, values, the cursor position,
                   \* the bit parser, var_column_idx, null_bit_idx, status
    sp_row,        \* what Schema::parse returned, or NotCalled
    \* ---- page provider, record iterators, table scans (raw_page.rs, table.rs) ----
    store,         \* the pages behind PageProvider::get: PagePointer -> Option<page>
    file_ids,      \* what PageProvider::file_ids() returns
    partition_pointer,  \* Table.partition_pointer
    op,            \* the scan in progress: "idle", "rows" or "scan_db"
    status,        \* "running", "done" (the iterator returned None) or "panic"
    scan_p_min_len, \* the p_min_len scan_db captured from partition_pointer[0]
    outer,         \* position of the outer iterators: [part] (rows: partitions
                   \* opened so far) or [file, page] (scan_db: index into
                   \* file_ids and next page_id of the range)
    frontiter,     \* the inner RecordIterator of the flat_map, or None
    out,           \* the rows yielded so far, each with the page and slot it came from
    visited,       \* the pages that have been current_page of a RecordIterator
    last_end,      \* where the RecordIterator last returned None: [page, idx]
    gr,            \* the last PageProvider::get_record call before the scan: [ptr, res]
    \* ---- schema construction and catalog (types.rs, db.rs) ----
    col_info,      \* the (SysColPar, SysScalarType) pairs given to Schema::from_col_par
    schema_out,    \* what Schema::from_col_par returned, or NotCalled
    alloc_units,   \* SystemTables.alloc_units
    row_sets,      \* SystemTables.row_sets
    boot,          \* SystemTables::parse: [stage, status, loaded], loaded = the
                   \* pg_first each table's rows were read from, in reading order
    db_out,        \* the last DB::table / DB::tables call: [op, name, tbl, res], tbl
                   \* the SysSchObj the returned Table was built for
    \* ---- LOB reader (lob.rs) and single calls ----
    lob_read,      \* LobPointer::read: [status, entries, todo, new_entries,
                   \* data_blocks, res]: the level being walked, what is left of
                   \* it, the next level, the extents pushed so far, the result
    call           \* one call of a function on a drawn input: [op, arg, res]

rec_vars == <<rec_in, rec_out, acc>>
sch_vars == <<sp_columns, sp_record, sp, sp_row>>
env_vars == <<store, file_ids, partition_pointer>>
scan_vars == <<op, status, scan_p_min_len, outer, frontiter, out, visited, last_end, gr>>

cat_vars == <<col_info, schema_out, alloc_units, row_sets, boot, db_out, lob_read, call>>

vars == <<rec_in, rec_out, acc, sp_columns, sp_record, sp, sp_row,
          store, file_ids, partition_pointer,
          op, status, scan_p_min_len, outer, frontiter, out, visited, last_end, gr,
          col_info, schema_out, alloc_units, row_sets, boot, db_out, lob_read, call>>

\* ------------------------------------------------------------------ outcomes

NotCalled == [tag |-> "NotCalled"]
NoCall == [op |-> "none", idx |-> 0, res |-> NotCalled]
Panic == [tag |-> "Panic"]
None == [tag |-> "None"]
Some(v) == [tag |-> "Some", val |-> v]

\* ------------------------------------------------------------------ bytes

\* (&data[pos..]).read_u16::<LittleEndian>()
ReadU16(data, pos) == data[pos + 1] + 256 * data[pos + 2]

\* the two bytes of a little-endian u16
U16Bytes(n) == << n % 256, (n \div 256) % 256 >>

\* &data[a..b] as a view; the caller has checked a <= b <= Len(data)
Slice(data, a, b) == [pos |-> a, bytes |-> SubSeq(data, a + 1, b)]

\* the static empty slice &[]
EmptySlice == [pos |-> -1, bytes |-> << >>]

\* ------------------------------------------------------------------ record.rs

\* RecordTagA bits
HAS_NULL_BITMAP == 1
HAS_VAR_LENGTH_COLUMNS == 2

TagContains(tag_a, flag) == (tag_a \div flag) % 2 = 1

\* RecordType::parse: the 3-bit code and its variant
RecordTypeName(num) ==
    CASE num = 0 -> "Primary"
      [] num = 1 -> "Forwarded"
      [] num = 2 -> "Forwarding"
      [] num = 3 -> "Index"
      [] num = 4 -> "Blob"
      [] num = 5 -> "GhostIndex"
      [] num = 6 -> "GhostData"
      [] num = 7 -> "GhostVersion"

\* the assert!(matches!(ty, Primary | Index | Blob)) of Record::parse
SupportedType(ty) == ty \in {"Primary", "Index", "Blob"}

\* the byte offset where column_count is read
ColumnCountOffset(is_index, p_min_len, fixed_data_length) ==
    IF is_index THEN p_min_len ELSE 4 + fixed_data_length

\* number of bytes of the null bitmap
NullBitmapBytes(column_count) == (column_count + 7) \div 8

\* Record::parse from the point where fixed_data_length is known
RecordParseBody(data, is_index, p_min_len, ty, tag_a, fixed_data_length) ==
    LET len == Len(data)
        offset0 == ColumnCountOffset(is_index, p_min_len, fixed_data_length)
    IN  IF offset0 > len THEN None
        ELSE IF len - offset0 < 2 THEN Panic            \* read_u16().unwrap()
        ELSE
        LET column_count == ReadU16(data, offset0)
            offset1 == offset0 + 2
            has_null == TagContains(tag_a, HAS_NULL_BITMAP)
            has_var == TagContains(tag_a, HAS_VAR_LENGTH_COLUMNS)
            null_bitmap_bytes == NullBitmapBytes(column_count)
            offset2 == IF has_null THEN offset1 + null_bitmap_bytes ELSE offset1
        IN  IF has_null /\ offset2 > len THEN Panic     \* &data[offset..offset + n]
            ELSE IF has_var /\ len - offset2 < 2 THEN Panic
            ELSE IF fixed_data_length + 4 > len THEN Panic  \* &data[4..fdl + 4]
            ELSE Some([
                ty |-> ty,
                tag_a |-> tag_a,
                column_count |-> column_count,
                fixed_data |-> Slice(data, 4, fixed_data_length + 4),
                null_bitmap |->
                    IF has_null THEN Some(Slice(data, offset1, offset2)) ELSE None,
                var_length_columns |->
                    IF has_var
                    THEN Some([count |-> ReadU16(data, offset2),
                               data |-> Slice(data, offset2 + 2, len),
                               base_offset |-> offset2 + 2])
                    ELSE None ])

\* Record::parse(data, is_index, p_min_len)
RecordParse(data, is_index, p_min_len) ==
    IF Len(data) < 1 THEN Panic                         \* data[0]
    ELSE IF ~is_index /\ Len(data) < 2 THEN Panic       \* data[1]
    ELSE
    LET tag_a == data[1] \div 16
        ty == RecordTypeName((data[1] % 16) \div 2)
    IN  IF ~SupportedType(ty) THEN Panic                \* assert!(matches!(..))
        ELSE IF is_index
        THEN IF p_min_len = 0 THEN Panic                \* p_min_len - 1, then &data[4..65539]
             ELSE RecordParseBody(data, TRUE, p_min_len, ty, tag_a, p_min_len - 1)
        ELSE IF Len(data) < 4 THEN Panic                \* &data[2..4]
        ELSE LET offs == ReadU16(data, 2)
             IN  IF offs < 4 THEN None
                 ELSE RecordParseBody(data, FALSE, p_min_len, ty, tag_a, offs - 4)

\* bit idx of a BitSlice<Lsb0, u8>
BitAt(bytes, idx) == (bytes[(idx \div 8) + 1] \div (2 ^ (idx % 8))) % 2 = 1

\* Record::is_column_null(idx): Some(bool), or Panic when the BitSlice index is
\* out of range
IsColumnNull(rec, idx) ==
    IF rec.null_bitmap.tag = "None" THEN Some(FALSE)
    ELSE LET bits == rec.null_bitmap.val.bytes
         IN  IF idx >= 8 * Len(bits) THEN Panic
             ELSE Some(BitAt(bits, idx))

\* VarLengthColumnOffset::parse
VarLengthColumnOffsetParse(bytes, pos) ==
    LET value == ReadU16(bytes, pos)
    IN  [end |-> value % 32768, complex |-> value >= 32768]

\* the start of column idx inside VarLengthColumns.data (idx > 0)
VarStartMut(v, idx) == VarLengthColumnOffsetParse(v.data.bytes, 2 * (idx - 1)).end
VarStart(v, idx) ==
    VarLengthColumnOffsetParse(v.data.bytes, 2 * (idx - 1)).end - v.base_offset

\* VarLengthColumns::get(idx): Some([complex, data]) or Panic
VarLengthColumnsGet(v, idx) ==
    IF idx >= v.count THEN Some([complex |-> FALSE, data |-> EmptySlice])
    ELSE
    LET n == Len(v.data.bytes)
    IN  IF idx > 0 /\ 2 * idx > n THEN Panic                \* &self.data[2*prev..2*(prev+1)]
        ELSE IF 2 * (idx + 1) > n THEN Panic                \* &self.data[2*idx..2*(idx+1)]
        ELSE
        LET start == IF idx = 0 THEN 2 * v.count ELSE VarStart(v, idx)
            end == VarLengthColumnOffsetParse(v.data.bytes, 2 * idx)
            end_offs == end.end - v.base_offset
        IN  IF start < 0 \/ end_offs < 0 THEN Panic         \* usize underflow
            ELSE IF start > end_offs \/ end_offs > n THEN Panic  \* &self.data[start..end_offs]
            ELSE Some([complex |-> end.complex,
                       data |-> [pos |-> v.data.pos + start,
                                 bytes |-> SubSeq(v.data.bytes, start + 1, end_offs)]])

\* ------------------------------------------------------------------ util.rs, lob.rs

\* unsigned little-endian integer of the n bytes at pos
RECURSIVE ReadLE(_, _, _)
ReadLE(bytes, pos, n) ==
    IF n = 0 THEN 0 ELSE bytes[pos + 1] + 256 * ReadLE(bytes, pos + 1, n - 1)

\* two's complement reading of an unsigned value of the given width in bits
Signed(u, bits) == IF u >= 2 ^ (bits - 1) THEN u - 2 ^ bits ELSE u

\* parse_utf16_string: UTF_16LE.decode(data), as the sequence of decoded code
\* units: a leading FF FE byte-order mark is removed, a trailing odd byte decodes
\* to U+FFFD (65533)
RECURSIVE Utf16Units(_)
Utf16Units(bytes) ==
    IF Len(bytes) = 0 THEN << >>
    ELSE IF Len(bytes) = 1 THEN << 65533 >>
    ELSE << ReadLE(bytes, 0, 2) >> \o Utf16Units(SubSeq(bytes, 3, Len(bytes)))
ParseUtf16String(bytes) ==
    IF Len(bytes) >= 2 /\ bytes[1] = 255 /\ bytes[2] = 254
    THEN Utf16Units(SubSeq(bytes, 3, Len(bytes)))
    ELSE Utf16Units(bytes)

\* RecordPointer::parse(&data[0..8]): None when file_id = 0
RecordPointerParse(bytes, pos) ==
    LET file_id == ReadLE(bytes, pos + 4, 2)
    IN  IF file_id = 0 THEN None
        ELSE Some([page_ptr |-> [page_id |-> ReadLE(bytes, pos, 4), file_id |-> file_id],
                   slot_id |-> ReadLE(bytes, pos + 6, 2)])

\* LobPointer::parse(data): Some(pointer), or Panic on a short slice or a null
\* record pointer (the unwrap())
LobPointerParse(bytes) ==
    IF Len(bytes) < 16 THEN Panic
    ELSE LET ptr == RecordPointerParse(bytes, 8)
         IN  IF ptr.tag = "None" THEN Panic
             ELSE Some([timestamp |-> ReadLE(bytes, 0, 4), ptr |-> ptr.val])

\* ------------------------------------------------------------------ types.rs

\* SqlType: [name], with size for Binary/Char/NChar and max (None or Some(n)) for
\* VarBinary/VarChar
Ty(name) == [name |-> name]
TySized(name, size) == [name |-> name, size |-> size]
TyMax(name, max) == [name |-> name, max |-> max]

FixedTypeNames ==
    {"TinyInt", "SmallInt", "Int", "BigInt", "Binary", "Char", "NChar", "DateTime",
     "UniqueIdentifier", "Bit", "Float", "SmallDateTime"}
VarTypeNames ==
    {"VarBinary", "VarChar", "SysName", "NVarChar", "SqlVariant", "Image", "NText"}

\* SqlType::is_var_length
IsVarLength(ty) == ty.name \in VarTypeNames

\* SqlType::parse_var_length: the types without an arm fall to
\* _ => panic!("cannot parse fixed length type using `parse_var_length`")
ParseVarLengthRejectsMut(ty) ==
    ty.name \notin {"VarBinary", "VarChar", "Image", "NText", "SysName", "NVarChar"}
ParseVarLengthRejects(ty) ==
    ty.name \notin {"VarBinary", "VarChar", "Image", "NText", "SysName", "NVarChar",
                    "SqlVariant"}

\* SqlType::parse: the types without an arm fall to
\* _ => panic!("cannot parse var length type using `parse`")
ParseRejects(ty) ==
    ty.name \notin {"TinyInt", "SmallInt", "Int", "BigInt", "Bit", "Float",
                    "UniqueIdentifier", "DateTime", "SmallDateTime", "Binary", "Char",
                    "NChar"}

\* a decoded value, and the outcome of a decoder
Val(tag, v) == [tag |-> tag, v |-> v]
Ok(v) == [tag |-> "Ok", val |-> v]

\* SqlType::parse_var_length(complex, data): Ok(SqlValue) or Panic
ParseVarLength(ty, complex, data) ==
    LET bytes == data.bytes
        lob == LobPointerParse(bytes)
    IN  CASE ParseVarLengthRejects(ty) -> Panic                   \* panic!("cannot parse fixed ..")
          [] ty.name = "VarBinary" ->
               IF complex
               THEN IF lob.tag = "Panic" THEN Panic
                    ELSE Ok(Val("VarBinary", [kind |-> "Lob", lob |-> lob.val]))
               ELSE Ok(Val("VarBinary", [kind |-> "Value", data |-> data]))
          [] ty.name = "VarChar" ->
               IF complex THEN Panic                              \* assert!(!complex)
               ELSE IF ty.max.tag = "Some" /\ Len(bytes) > ty.max.val THEN Panic
               ELSE Ok(Val("VarChar", data))
          [] ty.name \in {"Image", "NText"} ->
               IF Len(bytes) # 0
               THEN IF ~complex THEN Panic                        \* assert!(complex)
                    ELSE IF Len(bytes) # 16 THEN Panic            \* assert_eq!(len, 16)
                    ELSE IF lob.tag = "Panic" THEN Panic
                    ELSE Ok(Val("Image", Some(lob.val)))
               ELSE Ok(Val("Image", None))
          [] ty.name = "SysName" ->
               IF complex THEN Panic
               ELSE Ok(Val("SysName", ParseUtf16String(bytes)))
          [] ty.name = "NVarChar" ->
               IF complex
               THEN IF lob.tag = "Panic" THEN Panic
                    ELSE Ok(Val("NVarChar", [kind |-> "Lob", lob |-> lob.val]))
               ELSE Ok(Val("NVarChar", [kind |-> "Value", data |-> ParseUtf16String(bytes)]))
          [] ty.name = "SqlVariant" ->
               IF complex THEN Panic
               ELSE Ok(Val("SqlVariant", data))

\* BitParser::new
BitParserNew == [current_byte |-> 0, read_bits |-> 8]

\* number of bytes a fixed-length type reads from the cursor (Bit aside)
FixedWidth(ty) ==
    CASE ty.name = "TinyInt" -> 1
      [] ty.name = "SmallInt" -> 2
      [] ty.name = "Int" -> 4
      [] ty.name = "BigInt" -> 8
      [] ty.name = "Float" -> 8
      [] ty.name = "UniqueIdentifier" -> 16
      [] ty.name = "DateTime" -> 8
      [] ty.name = "SmallDateTime" -> 4
      [] ty.name \in {"Binary", "Char", "NChar"} -> ty.size

\* std::str::from_utf8 on bytes that are ASCII or hold a byte that no UTF-8
\* text contains (C0, C1, F5..FF); the generated inputs hold no other bytes
IsUtf8(bytes) == \A k \in 1..Len(bytes) : bytes[k] < 128

\* The value a fixed-length type decodes from the w bytes at pos.  Integers of
\* 8 and 16 bits are numbers; a wider integer, float or uuid is written as its
\* little-endian bytes (the number they encode exceeds the checker's integers).
\* A DateTime is [days, ticks]: the days added to 1900-01-01 (the date field
\* when 0 < date < 1000000, else none) and the time field in 1/300 s; a
\* SmallDateTime is [days, minutes].
FixedValue(ty, fixed, pos) ==
    LET w == FixedWidth(ty)
        raw == SubSeq(fixed.bytes, pos + 1, pos + w)
    IN  CASE ty.name = "TinyInt" -> Val("TinyInt", Signed(ReadLE(raw, 0, 1), 8))
          [] ty.name = "SmallInt" -> Val("SmallInt", Signed(ReadLE(raw, 0, 2), 16))
          [] ty.name = "Int" -> Val("Int", raw)
          [] ty.name = "BigInt" -> Val("BigInt", raw)
          [] ty.name = "Float" -> Val("Float", raw)
          [] ty.name = "UniqueIdentifier" -> Val("UniqueIdentifier", raw)
          [] ty.name = "DateTime" ->
               LET date == IF raw[8] = 0 THEN ReadLE(raw, 4, 3) ELSE 0
                   days == IF date < 1000000 /\ date > 0 THEN date ELSE 0
               IN  Val("DateTime", [days |-> days, ticks |-> SubSeq(raw, 1, 4)])
          [] ty.name = "SmallDateTime" ->
               Val("DateTime", [days |-> ReadLE(raw, 2, 2), minutes |-> ReadLE(raw, 0, 2)])
          [] ty.name = "Binary" -> Val("Binary", [pos |-> fixed.pos + pos, bytes |-> raw])
          [] ty.name = "Char" -> Val("Char", raw)
          [] ty.name = "NChar" -> Val("NChar", ParseUtf16String(raw))

\* BitParser::read_bit: (self.current_byte & 1) == 1
LowBitMut(byte) == byte >= 128
LowBit(byte) == byte % 2 = 1

\* BitParser::read_bit and SqlType::parse on the cursor at position pos of
\* record.fixed_data: [tag |-> "Ok", val, bp, pos] or Panic
SqlTypeParse(ty, bp, fixed, pos) ==
    LET len == Len(fixed.bytes)
    IN  IF ty.name = "Bit"
        THEN IF bp.read_bits = 8 /\ pos >= len THEN Panic       \* read_u8().unwrap()
             ELSE LET cur == IF bp.read_bits = 8 THEN fixed.bytes[pos + 1]
                                                 ELSE bp.current_byte
                      done == IF bp.read_bits = 8 THEN 0 ELSE bp.read_bits
                  IN  [tag |-> "Ok",
                       val |-> Val("Bit", LowBit(cur)),
                       bp |-> [current_byte |-> cur \div 2, read_bits |-> done + 1],
                       pos |-> IF bp.read_bits = 8 THEN pos + 1 ELSE pos]
        ELSE IF ParseRejects(ty) THEN Panic                     \* panic!("cannot parse var ..")
        ELSE IF pos + FixedWidth(ty) > len THEN Panic           \* unwrap() / slice index
        ELSE IF ty.name = "Char" /\ ~IsUtf8(SubSeq(fixed.bytes, pos + 1, pos + ty.size))
        THEN Panic                                              \* from_utf8().unwrap()
        ELSE [tag |-> "Ok", val |-> FixedValue(ty, fixed, pos), bp |-> bp,
              pos |-> pos + FixedWidth(ty)]

\* the cells Schema::parse starts from: repeat_with(|| None).take(columns.len())
InitValuesMut(columns) == [k \in 1..Cardinality({j \in 1..Len(columns) : ~columns[j].computed}) |-> None]
InitValues(columns) == [k \in 1..Len(columns) |-> None]

\* Schema::parse: the state before the first column
SchemaParseStart(columns) ==
    [i |-> 0, values |-> InitValues(columns), pos |-> 0, bit_parser |-> BitParserNew,
     var_column_idx |-> 0, null_bit_idx |-> 0, status |-> "loop"]

\* Schema::parse: if *computed { continue }
SkipComputedMut(st) == [st EXCEPT !.i = st.i + 1, !.null_bit_idx = st.null_bit_idx + 1]
SkipComputed(st) == [st EXCEPT !.i = st.i + 1]

\* Schema::parse: null_bit_idx >= record.column_count as usize
PastColumnCountMut(record, st) == st.null_bit_idx > record.column_count
PastColumnCount(record, st) == st.null_bit_idx >= record.column_count

\* Schema::parse: the (complex, data) decoded for a variable-length column of a
\* record without a variable block: parse_var_length(false, &[])
MissingVarColumnMut == [complex |-> TRUE, data |-> EmptySlice]
MissingVarColumn == [complex |-> FALSE, data |-> EmptySlice]

\* Schema::parse: the empty else branch of a column whose null bit is set: only
\* the null_bit_idx += 1 that ends every turn happens
NullColumnMut(next) == [next EXCEPT !.var_column_idx = next.var_column_idx + 1]
NullColumn(next) == next

\* Schema::parse: one turn of the loop, for column st.i (0-based)
SchemaParseColumn(columns, record, st) ==
    LET col == columns[st.i + 1]
        next == [st EXCEPT !.i = st.i + 1, !.null_bit_idx = st.null_bit_idx + 1]
        failed == [st EXCEPT !.status = "panic"]
        is_null == IsColumnNull(record, st.null_bit_idx)
    IN  IF col.computed THEN SkipComputed(st)
        ELSE IF PastColumnCount(record, st) THEN next
        ELSE IF is_null.tag = "Panic" THEN failed
        ELSE IF is_null.val THEN NullColumn(next)
        ELSE IF IsVarLength(col.data_type)
        THEN IF record.var_length_columns.tag = "Some"
             THEN LET got == VarLengthColumnsGet(record.var_length_columns.val,
                                                 st.var_column_idx)
                      val == ParseVarLength(col.data_type, got.val.complex, got.val.data)
                  IN  IF got.tag = "Panic" \/ val.tag = "Panic" THEN failed
                      ELSE [next EXCEPT !.values[st.i + 1] = Some(val.val),
                                        !.var_column_idx = st.var_column_idx + 1]
             ELSE LET val == ParseVarLength(col.data_type, MissingVarColumn.complex,
                                            MissingVarColumn.data)
                  IN  IF val.tag = "Panic" THEN failed
                      ELSE [next EXCEPT !.values[st.i + 1] = Some(val.val)]
        ELSE LET val == SqlTypeParse(col.data_type, st.bit_parser, record.fixed_data, st.pos)
             IN  IF val.tag = "Panic" THEN failed
                 ELSE [next EXCEPT !.values[st.i + 1] = Some(val.val),
                                   !.bit_parser = val.bp, !.pos = val.pos]

\* Schema::parse(record): Ok(Row) or Panic
RECURSIVE SchemaParseFrom(_, _, _)
SchemaParseFrom(columns, record, st) ==
    IF st.status = "panic" THEN Panic
    ELSE IF st.i >= Len(columns) THEN Ok([values |-> st.values])
    ELSE SchemaParseFrom(columns, record, SchemaParseColumn(columns, record, st))
SchemaParse(columns, record) == SchemaParseFrom(columns, record, SchemaParseStart(columns))

\* ColParStatus flags (system_tables.rs)
NULLABLE == 2 ^ 0
COMPUTED == 2 ^ 4
FILESTREAM == 2 ^ 5
XML_DOCUMENT == 2 ^ 11
SPARSE == 2 ^ 24
COLUMN_SET == 2 ^ 25

\* ColParStatus::contains(flag), for a single-bit flag
StatusContains(col_status, flag) == (col_status \div flag) % 2 = 1

\* SqlType::from_col(col, ty): Ok(SqlType), or Panic on an unknown type name
SqlTypeFromCol(col, ty) ==
    CASE ty.name = "tinyint" -> Ok(Ty("TinyInt"))
      [] ty.name = "smallint" -> Ok(Ty("SmallInt"))
      [] ty.name = "int" -> Ok(Ty("Int"))
      [] ty.name = "bigint" -> Ok(Ty("BigInt"))
      [] ty.name = "binary" -> Ok(TySized("Binary", col.length))
      [] ty.name = "char" -> Ok(TySized("Char", col.length))
      [] ty.name = "nchar" -> Ok(TySized("NChar", col.length))
      [] ty.name = "varbinary" -> Ok(TyMax("VarBinary", Some(col.length)))
      [] ty.name = "varchar" -> Ok(TyMax("VarChar", Some(col.length)))
      [] ty.name = "bit" -> Ok(Ty("Bit"))
      [] ty.name = "nvarchar" -> Ok(Ty("NVarChar"))
      [] ty.name = "sysname" -> Ok(Ty("SysName"))
      [] ty.name = "uniqueidentifier" -> Ok(Ty("UniqueIdentifier"))
      [] ty.name = "datetime" -> Ok(Ty("DateTime"))
      [] ty.name = "sql_variant" -> Ok(Ty("SqlVariant"))
      [] ty.name = "image" -> Ok(Ty("Image"))
      [] ty.name = "ntext" -> Ok(Ty("NText"))
      [] ty.name = "float" -> Ok(Ty("Float"))
      [] ty.name = "smalldatetime" -> Ok(Ty("SmallDateTime"))
      [] OTHER -> Panic

\* Schema::from_col_par: the asserts of the map closure
ColumnRefused(col) ==
    \/ StatusContains(col.status, SPARSE)
    \/ StatusContains(col.status, FILESTREAM)
    \/ StatusContains(col.status, XML_DOCUMENT)

\* Schema::from_col_par: the closure of the map, for one (col, ty) pair:
\* Ok(ColumnType) or Panic
ColumnTypeOf(pair) ==
    LET col == pair.col
        data_type == SqlTypeFromCol(col, pair.ty)
    IN  IF ColumnRefused(col) THEN Panic
        ELSE IF data_type.tag = "Panic" THEN Panic
        ELSE IF col.name.tag = "None" THEN Panic                  \* name.clone().unwrap()
        ELSE Ok([idx |-> col.col_id,
                 data_type |-> data_type.val,
                 name |-> col.name.val,
                 nullable |-> ~StatusContains(col.status, NULLABLE),
                 computed |-> StatusContains(col.status, COMPUTED)])

\* columns.sort_by(|a, b| a.idx.partial_cmp(&b.idx).unwrap()): a stable sort,
\* as insertion of each column behind the columns whose idx is not greater
SortByIdxMut(columns) == columns
RECURSIVE SortByIdx(_)
SortByIdx(columns) ==
    IF columns = << >> THEN << >>
    ELSE LET n == Len(columns)
             c == columns[n]
             sorted == SortByIdx(SubSeq(columns, 1, n - 1))
             k == Cardinality({ j \in 1..(n - 1) : sorted[j].idx <= c.idx })
         IN  SubSeq(sorted, 1, k) \o << c >> \o SubSeq(sorted, k + 1, n - 1)

\* Schema::from_col_par(column_info): Ok(Schema) or Panic
FromColPar(column_info) ==
    LET built == [k \in 1..Len(column_info) |-> ColumnTypeOf(column_info[k])]
    IN  IF \E k \in 1..Len(built) : built[k].tag = "Panic" THEN Panic
        ELSE Ok([columns |-> SortByIdx([k \in 1..Len(built) |-> built[k].val])])

\* ------------------------------------------------------------------ raw_page.rs

\* A page: the header fields the scans read (header.ptr, ty, p_min_len,
\* slot_count, next_page_ptr) and, for each entry of the slot array at the page
\* tail, the bytes &data[offset..] the entry points to.  The tail holds entries
\* beyond slot_count too.
MkPage(ptr, ty, p_min_len, slot_count, slots, next) ==
    [ptr |-> ptr, ty |-> ty, p_min_len |-> p_min_len, slot_count |-> slot_count,
     slots |-> slots, next_page_ptr |-> next]

Ptr(file_id, page_id) == [file_id |-> file_id, page_id |-> page_id]

\* PageProvider::get(ptr)
ProviderGet(ptr) == IF ptr \in DOMAIN store THEN store[ptr] ELSE None

\* the bounds check of RawPage::record: idx >= self.record_count()
SlotOutOfRangeMut(page, idx) == idx > page.slot_count
SlotOutOfRange(page, idx) == idx >= page.slot_count

\* RawPage::record(idx): Some(record), None or Panic
RawPageRecord(page, idx) ==
    IF SlotOutOfRange(page, idx) THEN None
    ELSE IF idx >= Len(page.slots) THEN Panic          \* the slot entry leaves the page
    ELSE RecordParse(page.slots[idx + 1], page.ty = "Index", page.p_min_len)

\* PageProvider::get_record(ptr)
ProviderGetRecord(ptr) ==
    LET page == ProviderGet(ptr.page_ptr)
    IN  IF page.tag = "None" THEN None ELSE RawPageRecord(page.val, ptr.slot_id)

\* RecordIterator::new(start_page, local)
RecordIteratorNew(start_page, local) ==
    [current_page |-> start_page, idx |-> 0, local |-> local]

\* self.idx after RecordIterator::next moved to the next page
IdxOnNewPageMut(it) == it.idx
IdxOnNewPage(it) == 0

\* RecordIterator::next: [it, res, moved]: the iterator afterwards, what was
\* returned (Some(record), None, Panic) and whether it moved to the next page
RecordIteratorNext(it) ==
    LET exhausted == it.idx >= it.current_page.slot_count
        next == it.current_page.next_page_ptr
        follow == exhausted /\ next.tag = "Some" /\ ~it.local
        got == ProviderGet(next.val)
    IN  IF exhausted /\ ~follow THEN [it |-> it, res |-> None, moved |-> FALSE]
        ELSE IF follow /\ got.tag = "None" THEN [it |-> it, res |-> None, moved |-> FALSE]
        ELSE
        LET page == IF follow THEN got.val ELSE it.current_page
            idx == IF follow THEN IdxOnNewPage(it) ELSE it.idx
        IN  [it |-> [it EXCEPT !.current_page = page, !.idx = idx + 1],
             res |-> RawPageRecord(page, idx),
             moved |-> follow]

\* ------------------------------------------------------------------ lob.rs

\* LobType::parse(record): Some(type), None (unknown type) or Panic
\* (&record.fixed_data[8..10])
LobTypeParse(fixed) ==
    IF Len(fixed) < 10 THEN Panic
    ELSE LET ty == ReadLE(fixed, 8, 2)
         IN  CASE ty = 0 -> Some("SmallRoot")
               [] ty = 2 -> Some("Internal")
               [] ty = 3 -> Some("Data")
               [] ty = 5 -> Some("LargeRootYukon")
               [] ty = 8 -> Some("Null")
               [] OTHER -> None

\* a LobEntry: a leaf (SmallRoot, Data) with its data, or a node
\* (LargeRootYukon, Internal) with its link counts and the fixed data of its
\* record
LobLeaf(kind, data) ==
    [kind |-> kind, data |-> data, max_links |-> 0, cur_links |-> 0, level |-> 0,
     fixed |-> << >>]
LobNode(kind, fixed) ==
    [kind |-> kind, data |-> << >>, max_links |-> ReadLE(fixed, 10, 2),
     cur_links |-> ReadLE(fixed, 12, 2), level |-> ReadLE(fixed, 14, 2),
     fixed |-> fixed]

IsLobLeaf(entry) == entry.kind \in {"SmallRoot", "Data"}

\* LobEntry::parse(record): Some(entry), None or Panic
LobEntryParse(record) ==
    LET fixed == record.fixed_data.bytes
        ty == LobTypeParse(fixed)
    IN  IF ty.tag # "Some" THEN ty
        ELSE CASE ty.val = "Null" -> None
               [] ty.val = "Data" -> Some(LobLeaf("Data", SubSeq(fixed, 11, Len(fixed))))
               [] ty.val = "SmallRoot" ->
                    IF Len(fixed) < 12 \/ Len(fixed) < 16 + ReadLE(fixed, 10, 2) THEN Panic
                    ELSE Some(LobLeaf("SmallRoot",
                                      SubSeq(fixed, 17, 16 + ReadLE(fixed, 10, 2))))
               [] OTHER ->
                    IF Len(fixed) < 16 THEN Panic ELSE Some(LobNode(ty.val, fixed))

\* where entry idx of a node lies in its fixed data, and where the size /
\* offset and the record pointer lie in the entry: SizedRecordPointer (12
\* bytes from 20) in a LargeRootYukon, RecordPointerWithOffset (16 bytes from
\* 16) in an Internal
LobEntrySlot(entry, idx) ==
    IF entry.kind = "LargeRootYukon"
    THEN [first |-> 20 + 12 * idx, last |-> 20 + 12 * (idx + 1), offs_len |-> 4]
    ELSE [first |-> 16 * (idx + 1), last |-> 16 * (idx + 2), offs_len |-> 8]

\* LobLargeRootYukon::read_idx, LobInternal::read_idx: Some(record pointer),
\* None or Panic (the slice of fixed_data, the unwrap() of RecordPointer::parse)
LobReadIdx(entry, idx) ==
    LET slot == LobEntrySlot(entry, idx)
        ptr == RecordPointerParse(entry.fixed, slot.first + slot.offs_len)
    IN  IF idx >= entry.cur_links THEN None
        ELSE IF Len(entry.fixed) < slot.last THEN Panic
        ELSE IF ptr.tag = "None" THEN Panic
        ELSE ptr

\* the extent pushed for a leaf child: the size / offset of the parent's entry
ChildBlockMut(offs, entry) == [offs |-> Len(entry.data), data |-> entry.data]
ChildBlock(offs, entry) == [offs |-> offs, data |-> entry.data]

\* F(v), with v evaluated once and handed to F as a value
Bind(v, F(_)) == CHOOSE r \in { F(x) : x \in {v} } : TRUE

\* LobLargeRootYukon::read, LobInternal::read, which is what
\* LobEntrySubEntryIterator::next returns for idx: Some([offs, entry]), None
\* (idx >= cur_links, or a `?` on get_record or LobEntry::parse) or Panic
LobSubEntry(entry, idx) ==
    LET slot == LobEntrySlot(entry, idx)
        Parsed(child) ==
            IF child.tag # "Some" THEN child
            ELSE Some([offs |-> ReadLE(entry.fixed, slot.first, slot.offs_len),
                       entry |-> child.val])
        Fetched(record) ==
            IF record.tag # "Some" THEN record
            ELSE Bind(LobEntryParse(record.val), Parsed)
        Pointed(ptr) ==
            IF ptr.tag # "Some" THEN ptr
            ELSE Bind(ProviderGetRecord(ptr.val), Fetched)
    IN  Bind(LobReadIdx(entry, idx), Pointed)

\* the inner loop of LobPointer::read over entry.sub_entries(), from idx on:
\* the extents pushed, the entries pushed on new_entries, and whether it
\* panicked
RECURSIVE LobSubEntries(_, _)
LobSubEntries(entry, idx) ==
    LET Pushed(item) ==
            IF item.tag = "None" THEN [blocks |-> << >>, entries |-> << >>, panic |-> FALSE]
            ELSE IF item.tag = "Panic"
            THEN [blocks |-> << >>, entries |-> << >>, panic |-> TRUE]
            ELSE IF IsLobLeaf(item.val.entry)
            THEN [LobSubEntries(entry, idx + 1) EXCEPT
                    !.blocks = << ChildBlock(item.val.offs, item.val.entry) >> \o @]
            ELSE [LobSubEntries(entry, idx + 1) EXCEPT
                    !.entries = << item.val.entry >> \o @]
    IN  Bind(LobSubEntry(entry, idx), Pushed)

\* LobDataBlocks::length
LobLength(data_blocks) ==
    LET sum[k \in 0..Len(data_blocks)] ==
            IF k = 0 THEN 0 ELSE sum[k - 1] + Len(data_blocks[k].data)
    IN  sum[Len(data_blocks)]

\* ------------------------------------------------------------------ record inputs

\* bounds of the record-layer inputs
MaxVarCols == 2
MaxNullIdx == 17

\* the fixed data and the variable payload of the generated records
FixedBytes == << 17 >>
VarPayload == << 160, 161, 162 >>

\* The bytes of a record as the engine lays it out (spec section 6): byte 0 =
\* tag_a << 4 | type << 1, byte 1 = tag_b, bytes 2..4 = the length field, the
\* fixed data, column_count, the null bitmap (each byte = pat) when tag_a says
\* so, and the variable block when tag_a says so: count, then count entries
\* (first byte after the table) + ds[k], with the complex bit cs[k], and then
\* the payload.
MkRecord(ty, tag_a, len_field, cc, pat, vcount, ds, cs) ==
    LET has_null == TagContains(tag_a, HAS_NULL_BITMAP)
        has_var == TagContains(tag_a, HAS_VAR_LENGTH_COLUMNS)
        nb == IF has_null THEN NullBitmapBytes(cc) ELSE 0
        base == 4 + Len(FixedBytes) + 2 + nb + 2
        table_end == base + 2 * vcount
        entry(k) == U16Bytes(table_end + ds[k] + (IF cs[k] THEN 32768 ELSE 0))
        table[k \in 0..vcount] ==
            IF k = 0 THEN << >> ELSE table[k - 1] \o entry(k)
    IN  << tag_a * 16 + ty * 2, 0 >> \o U16Bytes(len_field) \o FixedBytes
        \o U16Bytes(cc) \o [i \in 1..nb |-> pat]
        \o (IF has_var THEN U16Bytes(vcount) \o table[vcount] \o VarPayload
            ELSE << >>)

NoSeq == << >>

\* every record type, with and without a null bitmap, on data and index pages
TypeInputs ==
    { [data |-> MkRecord(ty, tag_a, 5, 1, 0, 0, NoSeq, NoSeq),
       is_index |-> ix, p_min_len |-> 5] :
        ty \in 0..7, tag_a \in {0, HAS_NULL_BITMAP}, ix \in BOOLEAN }

\* length fields below 4, consistent, and beyond the buffer; column counts
\* around the byte boundary of the bitmap
BitmapInputs ==
    { [data |-> MkRecord(0, tag_a, lf, cc, pat, 0, NoSeq, NoSeq),
       is_index |-> FALSE, p_min_len |-> 5] :
        tag_a \in {0, HAS_NULL_BITMAP}, lf \in {3, 5, 200},
        cc \in {0, 1, 8, 9}, pat \in {0, 5, 255} }

\* variable blocks: every count up to MaxVarCols, every entry from one byte
\* before the end of the table to one byte past the payload
VarInputs ==
    UNION { { [data |-> MkRecord(0, tag_a + HAS_VAR_LENGTH_COLUMNS, 5, 1, 0, n, ds, cs),
               is_index |-> FALSE, p_min_len |-> 5] :
                tag_a \in {0, HAS_NULL_BITMAP},
                ds \in [1..n -> -1..(Len(VarPayload) + 1)],
                cs \in [1..n -> BOOLEAN] } : n \in 0..MaxVarCols }

\* index pages with small p_min_len
IndexInputs ==
    { [data |-> MkRecord(3, tag_a, 5, 1, 0, 1, << 1 >>, << FALSE >>),
       is_index |-> TRUE, p_min_len |-> p] :
        tag_a \in {0, HAS_NULL_BITMAP, HAS_VAR_LENGTH_COLUMNS}, p \in {0, 1, 5, 7, 200} }

RecordInputs == TypeInputs \cup BitmapInputs \cup VarInputs \cup IndexInputs

\* ------------------------------------------------------------------ record layer: actions

\* the row binder at rest
SchIdle ==
    /\ sp_columns = << >>
    /\ sp_record = NotCalled
    /\ sp = NotCalled
    /\ sp_row = NotCalled

\* no page store, no scan
ScanIdle ==
    /\ store = << >>
    /\ file_ids = << >>
    /\ partition_pointer = << >>
    /\ op = "idle"
    /\ status = "running"
    /\ scan_p_min_len = 0
    /\ outer = [part |-> 0]
    /\ frontiter = None
    /\ out = << >>
    /\ visited = << >>
    /\ last_end = None
    /\ gr = NoCall

\* LobPointer::read not called
LobIdle ==
    [status |-> "idle", entries |-> << >>, todo |-> << >>, new_entries |-> << >>,
     data_blocks |-> << >>, res |-> NotCalled]

\* no single call made
CallIdle == [op |-> "none", arg |-> None, res |-> NotCalled]

\* no DB::table / DB::tables call yet
DbIdle == [op |-> "none", name |-> "", tbl |-> None, res |-> NotCalled]

\* SystemTables::parse not called
BootIdle == [stage |-> 0, status |-> "idle", loaded |-> << >>]

\* no schema under construction, no catalog
CatIdle ==
    /\ col_info = << >>
    /\ schema_out = NotCalled
    /\ alloc_units = << >>
    /\ row_sets = << >>
    /\ boot = BootIdle
    /\ db_out = DbIdle
    /\ lob_read = LobIdle
    /\ call = CallIdle

RecInit ==
    /\ rec_in \in RecordInputs
    /\ rec_out = NotCalled
    /\ acc = NoCall
    /\ SchIdle
    /\ ScanIdle
    /\ CatIdle

\* Record::parse on the input
ParseRecord ==
    /\ rec_out = NotCalled
    /\ rec_out' = RecordParse(rec_in.data, rec_in.is_index, rec_in.p_min_len)
    /\ UNCHANGED <<rec_in, acc>>
    /\ UNCHANGED <<sch_vars, env_vars, scan_vars, cat_vars>>

\* record.is_column_null(idx) on the parsed record
CallIsColumnNull ==
    /\ rec_out.tag = "Some"
    /\ \E idx \in 0..MaxNullIdx :
          acc' = [op |-> "is_column_null", idx |-> idx,
                  res |-> IsColumnNull(rec_out.val, idx)]
    /\ UNCHANGED <<rec_in, rec_out>>
    /\ UNCHANGED <<sch_vars, env_vars, scan_vars, cat_vars>>

\* columns.get(idx) on the parsed record's variable block
CallVarGet ==
    /\ rec_out.tag = "Some"
    /\ rec_out.val.var_length_columns.tag = "Some"
    /\ \E idx \in 0..(MaxVarCols + 1) :
          acc' = [op |-> "get", idx |-> idx,
                  res |-> VarLengthColumnsGet(rec_out.val.var_length_columns.val, idx)]
    /\ UNCHANGED <<rec_in, rec_out>>
    /\ UNCHANGED <<sch_vars, env_vars, scan_vars, cat_vars>>

RecNext == ParseRecord \/ CallIsColumnNull \/ CallVarGet

SpecRecord == RecInit /\ [][RecNext]_vars

\* ------------------------------------------------------------------ row binder: inputs

\* bound on the number of schema columns
MaxCols == 3

\* A well-formed data record: fixed data, column_count, the null bitmap bytes
\* (None: no HAS_NULL_BITMAP) and the variable columns (None: no
\* HAS_VAR_LENGTH_COLUMNS), each [complex, bytes].
MkRow(fixed, cc, bitmap, varcols) ==
    LET tag_a == (IF bitmap.tag = "Some" THEN HAS_NULL_BITMAP ELSE 0)
                 + (IF varcols.tag = "Some" THEN HAS_VAR_LENGTH_COLUMNS ELSE 0)
        head == << tag_a * 16, 0 >> \o U16Bytes(4 + Len(fixed)) \o fixed \o U16Bytes(cc)
                \o (IF bitmap.tag = "Some" THEN bitmap.val ELSE << >>)
        cols == IF varcols.tag = "Some" THEN varcols.val ELSE << >>
        n == Len(cols)
        table_end == Len(head) + 2 + 2 * n
        payload[k \in 0..n] == IF k = 0 THEN << >> ELSE payload[k - 1] \o cols[k].bytes
        table[k \in 0..n] ==
            IF k = 0 THEN << >>
            ELSE table[k - 1] \o U16Bytes(table_end + Len(payload[k])
                                          + (IF cols[k].complex THEN 32768 ELSE 0))
    IN  head \o (IF varcols.tag = "Some" THEN U16Bytes(n) \o table[n] \o payload[n]
                 ELSE << >>)

\* a LOB pointer: timestamp 1, record pointer (file 1, page 7, slot 0)
LobPtrBytes == << 1, 0, 0, 0, 0, 0, 0, 0, 7, 0, 0, 0, 1, 0, 0, 0 >>

VarCol(complex, bytes) == [complex |-> complex, bytes |-> bytes]

\* the records handed to Schema::parse: with and without null bitmap and
\* variable block, with fewer columns than the schema, with null columns, with
\* short fixed data, with column_count 0 and an empty null bitmap, with inline
\* and complex variable columns
RowRecords ==
    { MkRow(<< 42, 5, 1 >>, 3, None, None),
      MkRow(<< 42, 5, 1 >>, 3, Some(<< 0 >>),
            Some(<< VarCol(FALSE, << 65, 66 >>), VarCol(TRUE, LobPtrBytes) >>)),
      MkRow(<< 42, 5, 1 >>, 3, Some(<< 2 >>),
            Some(<< VarCol(TRUE, LobPtrBytes), VarCol(FALSE, << 65 >>) >>)),
      MkRow(<< 42 >>, 1, Some(<< 0 >>), Some(<< VarCol(FALSE, << 65 >>) >>)),
      MkRow(<< 42, 5 >>, 3, Some(<< 3 >>), Some(<< VarCol(FALSE, << 65 >>) >>)),
      MkRow(<< >>, 2, Some(<< 1 >>), None),
      MkRow(<< 42 >>, 0, Some(<< >>), None),
      MkRow(<< 170, 1 >>, 4, Some(<< 5 >>), Some(<< >>)) }

\* the columns of the generated schemas
ColumnKinds ==
    { [data_type |-> Ty("TinyInt"), computed |-> FALSE],
      [data_type |-> Ty("TinyInt"), computed |-> TRUE],
      [data_type |-> Ty("Bit"), computed |-> FALSE],
      [data_type |-> TySized("Binary", 2), computed |-> FALSE],
      [data_type |-> TyMax("VarBinary", Some(1)), computed |-> FALSE],
      [data_type |-> TyMax("VarBinary", None), computed |-> TRUE],
      [data_type |-> TyMax("VarChar", Some(1)), computed |-> FALSE],
      [data_type |-> Ty("NText"), computed |-> FALSE] }

Schemas == UNION { [1..n -> ColumnKinds] : n \in 0..MaxCols }

\* ------------------------------------------------------------------ row binder: actions

\* the record layer at rest
RecIdle ==
    /\ rec_in = [data |-> << >>, is_index |-> FALSE, p_min_len |-> 0]
    /\ rec_out = NotCalled
    /\ acc = NoCall

\* schema.parse(record) is called with a record Record::parse returned
SchInit ==
    /\ sp_columns \in Schemas
    /\ \E data \in RowRecords : sp_record = RecordParse(data, FALSE, 0).val
    /\ sp = SchemaParseStart(sp_columns)
    /\ sp_row = NotCalled
    /\ RecIdle
    /\ ScanIdle
    /\ CatIdle

\* one turn of the loop over the columns
SchemaParseStep ==
    /\ sp.status = "loop"
    /\ sp.i < Len(sp_columns)
    /\ sp' = SchemaParseColumn(sp_columns, sp_record, sp)
    /\ sp_row' = IF sp'.status = "panic" THEN Panic ELSE sp_row
    /\ UNCHANGED <<sp_columns, sp_record>>
    /\ UNCHANGED <<rec_vars, env_vars, scan_vars, cat_vars>>

\* Row { values }
SchemaParseReturn ==
    /\ sp.status = "loop"
    /\ sp.i >= Len(sp_columns)
    /\ sp' = [sp EXCEPT !.status = "done"]
    /\ sp_row' = Ok([values |-> sp.values])
    /\ UNCHANGED <<sp_columns, sp_record>>
    /\ UNCHANGED <<rec_vars, env_vars, scan_vars, cat_vars>>

SchNext == SchemaParseStep \/ SchemaParseReturn

SpecSchema == SchInit /\ [][SchNext]_vars

\* ------------------------------------------------------------------ row binder: every SQL type

\* bound on the number of columns of the schemas over all types
MaxTypeCols == 2

\* every SqlType, the sized ones with size 2, the bounded ones with max 1
AllTypes ==
    { Ty("TinyInt"), Ty("SmallInt"), Ty("Int"), Ty("BigInt"), TySized("Binary", 2),
      TySized("Char", 2), TySized("NChar", 2), Ty("DateTime"), Ty("UniqueIdentifier"),
      Ty("Bit"), Ty("Float"), Ty("SmallDateTime"),
      TyMax("VarBinary", Some(1)), TyMax("VarBinary", None),
      TyMax("VarChar", Some(1)), TyMax("VarChar", None),
      Ty("SysName"), Ty("NVarChar"), Ty("SqlVariant"), Ty("Image"), Ty("NText") }

TypeSchemas ==
    UNION { [1..n -> { [data_type |-> ty, computed |-> FALSE] : ty \in AllTypes }] :
              n \in 0..MaxTypeCols }

\* fixed data wide enough for any two fixed-length columns
WideFixed == [k \in 1..32 |-> IF k % 4 = 0 THEN 0 ELSE 64 + k]

\* the records decoded against the schemas over all types: without a variable
\* block (with and without a null bitmap, with a null first column), and with
\* a variable block of inline columns within and beyond a maximum of 1, of LOB
\* pointers, and of empty columns
TypeRecords ==
    { MkRow(WideFixed, 3, None, None),
      MkRow(WideFixed, 3, Some(<< 0 >>), None),
      MkRow(WideFixed, 3, Some(<< 1 >>), None),
      MkRow(WideFixed, 3, Some(<< 0 >>),
            Some(<< VarCol(FALSE, << 65 >>), VarCol(FALSE, << 65, 0 >>),
                    VarCol(FALSE, << 66 >>) >>)),
      MkRow(WideFixed, 3, Some(<< 0 >>),
            Some(<< VarCol(FALSE, << 65, 0 >>), VarCol(FALSE, << 66 >>),
                    VarCol(FALSE, << 67 >>) >>)),
      MkRow(WideFixed, 3, Some(<< 0 >>),
            Some(<< VarCol(TRUE, LobPtrBytes), VarCol(TRUE, LobPtrBytes),
                    VarCol(FALSE, << >>) >>)),
      MkRow(WideFixed, 3, None,
            Some(<< VarCol(FALSE, << >>), VarCol(FALSE, << >>), VarCol(FALSE, << >>) >>)) }

\* schema.parse(record) is called with a schema over all types
SchTypesInit ==
    /\ sp_columns \in TypeSchemas
    /\ \E data \in TypeRecords : sp_record = RecordParse(data, FALSE, 0).val
    /\ sp = SchemaParseStart(sp_columns)
    /\ sp_row = NotCalled
    /\ RecIdle
    /\ ScanIdle
    /\ CatIdle

SpecSchemaTypes == SchTypesInit /\ [][SchNext]_vars

\* ------------------------------------------------------------------ row binder: bit columns

\* bounds on the number of Bit columns and of fixed-data bytes
MaxBits == 9
MaxBitBytes == 3

\* schemas of n consecutive Bit columns
BitSchemas == { [k \in 1..n |-> [data_type |-> Ty("Bit"), computed |-> FALSE]] : n \in 0..MaxBits }

\* records without null bitmap whose column_count covers every column and whose
\* fixed data is up to MaxBitBytes bytes
BitRecords ==
    { MkRow(fixed, MaxBits + 8, None, None) :
        fixed \in UNION { [1..m -> {170, 1, 77}] : m \in 0..MaxBitBytes } }

\* schema.parse(record) is called with a schema of Bit columns
SchBitsInit ==
    /\ sp_columns \in BitSchemas
    /\ \E data \in BitRecords : sp_record = RecordParse(data, FALSE, 0).val
    /\ sp = SchemaParseStart(sp_columns)
    /\ sp_row = NotCalled
    /\ RecIdle
    /\ ScanIdle
    /\ CatIdle

SpecBits == SchBitsInit /\ [][SchNext]_vars

\* ------------------------------------------------------------------ schema construction

\* bound on the number of (SysColPar, SysScalarType) pairs
MaxInfo == 3

\* a catalog column and its scalar type
ColPar(col_id, col_status, name, ty_name) ==
    [col |-> [col_id |-> col_id, status |-> col_status, name |-> name, length |-> 4],
     ty |-> [name |-> ty_name]]

\* the pairs given to from_col_par: int columns of col_id 1..3 with no flag or
\* one of COMPUTED, FILESTREAM, XML_DOCUMENT, SPARSE, COLUMN_SET, a nullable
\* varchar column, a column without name and a column of an unknown type
ColInfoKinds ==
    { ColPar(id, st, Some("c"), "int") :
        id \in 1..3, st \in {0, COMPUTED, FILESTREAM, XML_DOCUMENT, SPARSE, COLUMN_SET} }
    \cup { ColPar(2, NULLABLE, Some("v"), "varchar"),
           ColPar(1, 0, None, "int"),
           ColPar(1, 0, Some("x"), "xml") }

ColInfos == UNION { [1..n -> ColInfoKinds] : n \in 0..MaxInfo }

FromColParInit ==
    /\ col_info \in ColInfos
    /\ schema_out = NotCalled
    /\ alloc_units = << >>
    /\ row_sets = << >>
    /\ boot = BootIdle
    /\ db_out = DbIdle
    /\ lob_read = LobIdle
    /\ call = CallIdle
    /\ RecIdle
    /\ SchIdle
    /\ ScanIdle

\* Schema::from_col_par(col_info)
CallFromColPar ==
    /\ schema_out = NotCalled
    /\ schema_out' = FromColPar(col_info)
    /\ UNCHANGED <<col_info, alloc_units, row_sets, boot, db_out>>
    /\ UNCHANGED <<rec_vars, sch_vars, env_vars, scan_vars, lob_read, call>>

FromColParNext == CallFromColPar

SpecFromColPar == FromColParInit /\ [][FromColParNext]_vars

\* ------------------------------------------------------------------ db.rs: catalog bootstrap

\* system_tables.rs: the allocation unit of sysrowsets and the id_major of the
\* catalog tables
SYS_ROW_SET_AUID == 327680
SYS_SCH_OBJS_IDMAJOR == 34
SYS_COL_PARS_IDMAJOR == 41
SYS_SCALAR_TYPES_IDMAJOR == 50
SYS_SINGLE_OBJECT_REFS_IDMAJOR == 74

\* the fields of SysAllocUnit and SysRowSet the catalog lookups read
AllocUnit(au_id, ty, owner_id, pg_first) ==
    [au_id |-> au_id, ty |-> ty, owner_id |-> owner_id, pg_first |-> pg_first]
RowSet(row_set_id, id_major, id_minor) ==
    [row_set_id |-> row_set_id, id_major |-> id_major, id_minor |-> id_minor]

\* Iterator::find over a sequence, by the set of the matching positions
FirstAt(seq, hits) ==
    IF hits = {} THEN None ELSE Some(seq[CHOOSE k \in hits : \A j \in hits : k <= j])

\* SystemTables::find_alloc_unit_by_id
FindAllocUnitById(units, au_id, ty) ==
    FirstAt(units, { k \in 1..Len(units) : units[k].au_id = au_id /\ units[k].ty = ty })

\* SystemTables::find_alloc_unit_by_rowset_ids
FindAllocUnitByRowsetIds(units, sets, id_major, id_minor) ==
    LET row_set == FirstAt(sets, { k \in 1..Len(sets) :
                                     sets[k].id_major = id_major /\ sets[k].id_minor = id_minor })
    IN  IF row_set.tag = "None" THEN None
        ELSE FindAllocUnitById(units, row_set.val.row_set_id, "InRowData")

\* the predicate of allocation_unit_for_partition's find
OwnsPartitionMut(au, partition) == au.owner_id = partition.row_set_id
OwnsPartition(au, partition) ==
    au.owner_id = partition.row_set_id /\ au.ty = "InRowData"

\* SystemTables::allocation_unit_for_partition: Ok(alloc unit), or Panic (unwrap)
AllocationUnitForPartition(units, partition) ==
    LET au == FirstAt(units, { k \in 1..Len(units) : OwnsPartition(units[k], partition) })
    IN  IF au.tag = "None" THEN Panic ELSE Ok(au.val)

\* page_provider.get(au.unwrap().pg_first.unwrap()).unwrap(): Ok(pointer of the
\* page the rows are read from) or Panic
FirstPageOf(au) ==
    IF au.tag = "None" THEN Panic
    ELSE IF au.val.pg_first.tag = "None" THEN Panic
    ELSE IF ProviderGet(au.val.pg_first.val).tag = "None" THEN Panic
    ELSE Ok(au.val.pg_first.val)

\* the catalog tables SystemTables::parse reads after sysrowsets, in its order
BootOrder ==
    << SYS_SCH_OBJS_IDMAJOR, SYS_COL_PARS_IDMAJOR, SYS_SCALAR_TYPES_IDMAJOR,
       SYS_SINGLE_OBJECT_REFS_IDMAJOR >>

\* bound on the allocation units besides that of sysrowsets
MaxAllocUnits == 2

Reverse(seq) == [k \in 1..Len(seq) |-> seq[Len(seq) + 1 - k]]

\* the row sets read from sysrowsets: for sysschobjs one row-set with id_minor
\* 1, alone, behind one with id_minor 0, behind another with id_minor 1, or
\* none with id_minor 1; one for each other catalog table (that of
\* sysscalartypes may be missing); in this order or reversed
BootRowSets ==
    LET forward ==
          { v34 \o << RowSet(6, SYS_COL_PARS_IDMAJOR, 1) >> \o v50
                \o << RowSet(6, SYS_SINGLE_OBJECT_REFS_IDMAJOR, 1) >> :
              v34 \in { << RowSet(5, SYS_SCH_OBJS_IDMAJOR, 1) >>,
                        << RowSet(6, SYS_SCH_OBJS_IDMAJOR, 0), RowSet(5, SYS_SCH_OBJS_IDMAJOR, 1) >>,
                        << RowSet(6, SYS_SCH_OBJS_IDMAJOR, 1), RowSet(5, SYS_SCH_OBJS_IDMAJOR, 1) >>,
                        << RowSet(5, SYS_SCH_OBJS_IDMAJOR, 2) >> },
              v50 \in { << RowSet(5, SYS_SCALAR_TYPES_IDMAJOR, 1) >>, << >> } }
    IN  forward \cup { Reverse(sets) : sets \in forward }

\* the allocation units besides that of sysrowsets: au_id and owner_id equal or
\* crossed, of type LobData, with a null pg_first, with a pg_first the provider
\* does not have
BootAllocUnitKinds ==
    { AllocUnit(5, "InRowData", 5, Some(Ptr(1, 20))),
      AllocUnit(6, "InRowData", 6, Some(Ptr(1, 21))),
      AllocUnit(5, "InRowData", 6, Some(Ptr(1, 22))),
      AllocUnit(6, "InRowData", 5, Some(Ptr(1, 23))),
      AllocUnit(5, "LobData", 5, Some(Ptr(1, 24))),
      AllocUnit(5, "InRowData", 5, None),
      AllocUnit(6, "InRowData", 6, Some(Ptr(1, 99))) }

BootAllocUnits ==
    { head \o tail :
        head \in { << AllocUnit(SYS_ROW_SET_AUID, "InRowData", SYS_ROW_SET_AUID, Some(Ptr(1, 16))) >>,
                   << AllocUnit(SYS_ROW_SET_AUID, "InRowData", SYS_ROW_SET_AUID, None) >>,
                   << >> },
        tail \in UNION { [1..n -> BootAllocUnitKinds] : n \in 0..MaxAllocUnits } }

\* the pages the provider has: those of the catalog tables
BootStore ==
    [a \in { Ptr(1, id) : id \in {16, 20, 21, 22, 23, 24} } |->
        Some(MkPage(a, "Data", 5, 0, << >>, None))]

\* SystemTables::parse has read sysallocunits from boot_page.first_sys_indices
BootInit ==
    /\ alloc_units \in BootAllocUnits
    /\ row_sets \in BootRowSets
    /\ boot = [stage |-> 0, status |-> "running", loaded |-> << >>]
    /\ col_info = << >>
    /\ schema_out = NotCalled
    /\ db_out = DbIdle
    /\ lob_read = LobIdle
    /\ call = CallIdle
    /\ store = BootStore
    /\ file_ids = << 1 >>
    /\ partition_pointer = << >>
    /\ op = "idle"
    /\ status = "running"
    /\ scan_p_min_len = 0
    /\ outer = [part |-> 0]
    /\ frontiter = None
    /\ out = << >>
    /\ visited = << >>
    /\ last_end = None
    /\ gr = NoCall
    /\ RecIdle
    /\ SchIdle

\* SystemTables::parse: row_sets are read from the pg_first of the allocation
\* unit SYS_ROW_SET_AUID
LoadRowSets ==
    /\ boot.status = "running" /\ boot.stage = 0
    /\ LET pg == FirstPageOf(FindAllocUnitById(alloc_units, SYS_ROW_SET_AUID, "InRowData"))
       IN  boot' = IF pg.tag = "Panic" THEN [boot EXCEPT !.status = "panic"]
                   ELSE [boot EXCEPT !.stage = 1,
                                     !.loaded = Append(boot.loaded,
                                                       [id_major |-> 0, pg |-> pg.val])]
    /\ UNCHANGED <<col_info, schema_out, alloc_units, row_sets, db_out>>
    /\ UNCHANGED <<rec_vars, sch_vars, env_vars, scan_vars, lob_read, call>>

\* SystemTables::parse: the rows of the next catalog table are read from the
\* pg_first find_alloc_unit_by_rowset_ids(.., id_major, 1) leads to; after the
\* last one the SystemTables are returned
LoadCatalog ==
    /\ boot.status = "running" /\ boot.stage >= 1 /\ boot.stage <= Len(BootOrder)
    /\ LET id_major == BootOrder[boot.stage]
           pg == FirstPageOf(FindAllocUnitByRowsetIds(alloc_units, row_sets, id_major, 1))
       IN  boot' = IF pg.tag = "Panic" THEN [boot EXCEPT !.status = "panic"]
                   ELSE [stage |-> boot.stage + 1,
                         status |-> IF boot.stage = Len(BootOrder) THEN "done" ELSE "running",
                         loaded |-> Append(boot.loaded, [id_major |-> id_major, pg |-> pg.val])]
    /\ UNCHANGED <<col_info, schema_out, alloc_units, row_sets, db_out>>
    /\ UNCHANGED <<rec_vars, sch_vars, env_vars, scan_vars, lob_read, call>>

BootNext == LoadRowSets \/ LoadCatalog

SpecBoot == BootInit /\ [][BootNext]_vars

\* ------------------------------------------------------------------ db.rs: tables

\* bounds on the row sets and the allocation units of the catalog
MaxRowSets == 2
MaxDbAllocUnits == 3

\* SystemTables.sch_objs, col_pars and scalar_types of the catalogs DB::table is
\* called on: a user table "t" with two int columns listed in descending
\* col_id, a view, a system table "s" with one column, a second table "t"
SchObjs ==
    << [id |-> 100, name |-> "t", ty |-> "UserTable"],
       [id |-> 101, name |-> "v", ty |-> "View"],
       [id |-> 102, name |-> "s", ty |-> "SystemTable"],
       [id |-> 103, name |-> "t", ty |-> "UserTable"] >>
ColPars ==
    << [id |-> 100, col_id |-> 2, status |-> 0, name |-> Some("b"), length |-> 4, xtype |-> 56],
       [id |-> 102, col_id |-> 1, status |-> 0, name |-> Some("k"), length |-> 4, xtype |-> 56],
       [id |-> 100, col_id |-> 1, status |-> 0, name |-> Some("a"), length |-> 4, xtype |-> 56] >>
ScalarTypes ==
    << [id |-> 256, xtype |-> 56, name |-> "myint"],
       [id |-> 56, xtype |-> 56, name |-> "int"] >>

\* SystemTables::tables
Tables == SelectSeq(SchObjs, LAMBDA obj : obj.ty \in {"UserTable", "SystemTable"})

\* SystemTables::partitions_for_table
PartitionsForTable(sets, table) ==
    SelectSeq(sets, LAMBDA row_set : row_set.id_major = table.id /\ row_set.id_minor <= 1)

\* SystemTables::columns_for_table
ColumnsForTable(table) == SelectSeq(ColPars, LAMBDA col : col.id = table.id)

\* SystemTables::type_for_column: Ok(scalar type) or Panic (unwrap)
TypeForColumn(col) ==
    LET ty == FirstAt(ScalarTypes, { k \in 1..Len(ScalarTypes) :
                                       ScalarTypes[k].xtype = col.xtype /\ ScalarTypes[k].id <= 255 })
    IN  IF ty.tag = "None" THEN Panic ELSE Ok(ty.val)

\* the partition_pointer DB::table collects: Ok(pointers) or Panic
PartitionPointers(units, sets, table) ==
    LET parts == PartitionsForTable(sets, table)
        au == [k \in 1..Len(parts) |-> AllocationUnitForPartition(units, parts[k])]
        first == [k \in 1..Len(parts) |-> au[k].val.pg_first]
        some == SelectSeq(first, LAMBDA pg : pg.tag = "Some")
    IN  IF \E k \in 1..Len(parts) : au[k].tag = "Panic" THEN Panic
        ELSE Ok([k \in 1..Len(some) |-> some[k].val])

\* the Table DB::table and DB::tables build for tbl: Ok(Table) or Panic
MakeTable(units, sets, tbl) ==
    LET cols == ColumnsForTable(tbl)
        tys == [k \in 1..Len(cols) |-> TypeForColumn(cols[k])]
        schema == FromColPar([k \in 1..Len(cols) |-> [col |-> cols[k], ty |-> tys[k].val]])
        pointers == PartitionPointers(units, sets, tbl)
    IN  IF \E k \in 1..Len(cols) : tys[k].tag = "Panic" THEN Panic
        ELSE IF schema.tag = "Panic" \/ pointers.tag = "Panic" THEN Panic
        ELSE Ok([name |-> tbl.name, schema |-> schema.val,
                 partition_pointer |-> pointers.val])

\* the row sets and allocation units of the catalogs DB::table is called on
DbRowSetKinds ==
    { RowSet(7, 100, 0), RowSet(8, 100, 1), RowSet(9, 100, 2), RowSet(7, 102, 1) }
DbAllocUnitKinds ==
    { AllocUnit(17, "InRowData", 7, Some(Ptr(1, 30))),
      AllocUnit(18, "LobData", 7, Some(Ptr(1, 31))),
      AllocUnit(19, "InRowData", 8, None),
      AllocUnit(20, "InRowData", 8, Some(Ptr(1, 32))),
      AllocUnit(7, "InRowData", 9, Some(Ptr(1, 33))),
      AllocUnit(8, "InRowData", 7, Some(Ptr(1, 34))) }

\* a DB whose SystemTables have been parsed
DbInit ==
    /\ alloc_units \in UNION { [1..n -> DbAllocUnitKinds] : n \in 0..MaxDbAllocUnits }
    /\ row_sets \in UNION { [1..n -> DbRowSetKinds] : n \in 0..MaxRowSets }
    /\ boot = [stage |-> Len(BootOrder) + 1, status |-> "done", loaded |-> << >>]
    /\ col_info = << >>
    /\ schema_out = NotCalled
    /\ db_out = DbIdle
    /\ lob_read = LobIdle
    /\ call = CallIdle
    /\ RecIdle
    /\ SchIdle
    /\ ScanIdle

\* db.table(name)
DbTable ==
    /\ db_out.op = "none"
    /\ \E name \in {"t", "v", "s", "x"} :
          LET tbl == FirstAt(Tables, { k \in 1..Len(Tables) : Tables[k].name = name })
              made == MakeTable(alloc_units, row_sets, tbl.val)
          IN  db_out' = [op |-> "table", name |-> name, tbl |-> tbl,
                         res |-> IF tbl.tag = "None" THEN None
                                 ELSE IF made.tag = "Panic" THEN Panic
                                 ELSE Some(made.val)]
    /\ UNCHANGED <<col_info, schema_out, alloc_units, row_sets, boot>>
    /\ UNCHANGED <<rec_vars, sch_vars, env_vars, scan_vars, lob_read, call>>

\* db.tables(), consumed up to its n-th item
DbTables ==
    /\ db_out.op = "none"
    /\ \E n \in 1..Len(Tables) :
          LET made == [k \in 1..n |-> MakeTable(alloc_units, row_sets, Tables[k])]
          IN  db_out' = [op |-> "tables", name |-> Tables[n].name, tbl |-> Some(Tables[n]),
                         res |-> IF \E k \in 1..n : made[k].tag = "Panic" THEN Panic
                                 ELSE Some(made[n].val)]
    /\ UNCHANGED <<col_info, schema_out, alloc_units, row_sets, boot>>
    /\ UNCHANGED <<rec_vars, sch_vars, env_vars, scan_vars, lob_read, call>>

DbNext == DbTable \/ DbTables

SpecDb == DbInit /\ [][DbNext]_vars

\* ------------------------------------------------------------------ table.rs: inputs

\* bounds of the page stores
NumPages == 3
MaxSlotId == 2
MaxYield == 6

\* the records in the slots: one that decodes, one whose length field is below 4
GoodRecord == MkRow(<< 42 >>, 1, None, None)
BadRecord == MkRecord(0, 0, 3, 1, 0, 0, NoSeq, NoSeq)

\* Table.schema of the scanned table
TableColumns == << [data_type |-> Ty("TinyInt"), computed |-> FALSE] >>

\* slot layouts: [slot_count, slots]
SlotsEmpty == [slot_count |-> 0, slots |-> << GoodRecord >>]
SlotsOne == [slot_count |-> 1, slots |-> << GoodRecord, GoodRecord >>]
SlotsTwo == [slot_count |-> 2, slots |-> << GoodRecord, GoodRecord, GoodRecord >>]
SlotsBadGood == [slot_count |-> 2, slots |-> << BadRecord, GoodRecord >>]

\* The pages a chain is made of, for page id of file 1: data pages, empty or
\* not, with a slot that fails to decode, linked to the following page (the
\* last one to a page that does not exist), to nothing, to themselves or back to
\* page 0.
LinkedPages(id) ==
    LET me == Ptr(1, id)
        fwd == Some(Ptr(1, id + 1))
        page(sl, next) == MkPage(me, "Data", 5, sl.slot_count, sl.slots, next)
    IN  { page(SlotsEmpty, fwd), page(SlotsEmpty, None),
          page(SlotsTwo, fwd), page(SlotsTwo, None),
          page(SlotsBadGood, fwd),
          page(SlotsOne, Some(me)), page(SlotsOne, Some(Ptr(1, 0))) }

LinkedAddrs == { Ptr(1, id) : id \in 0..(NumPages - 1) }

LinkedStores ==
    { [a \in LinkedAddrs |-> Some(f[a.page_id])] :
        f \in { g \in [0..(NumPages - 1) -> UNION { LinkedPages(id) : id \in 0..(NumPages - 1) }] :
                  \A id \in 0..(NumPages - 1) : g[id] \in LinkedPages(id) } }

\* partition lists: any one page (also one that does not exist), or two of the
\* first and the last page
LinkedPartitions ==
    { << Ptr(1, id) >> : id \in 0..NumPages }
    \cup { << Ptr(1, a), Ptr(1, b) >> : a, b \in {0, NumPages - 1} }

\* ------------------------------------------------------------------ table.rs: actions

\* a Table over a page store, no scan started
LinkedInit ==
    /\ store \in LinkedStores
    /\ file_ids = << 1 >>
    /\ partition_pointer \in LinkedPartitions
    /\ op = "idle"
    /\ status = "running"
    /\ scan_p_min_len = 0
    /\ outer = [part |-> 0]
    /\ frontiter = None
    /\ out = << >>
    /\ visited = << >>
    /\ last_end = None
    /\ gr = NoCall
    /\ RecIdle
    /\ SchIdle
    /\ CatIdle

\* page_provider.get_record(ptr)
GetRecord ==
    /\ op = "idle"
    /\ \E id \in 0..NumPages, slot_id \in 0..MaxSlotId :
          LET ptr == [page_ptr |-> Ptr(1, id), slot_id |-> slot_id]
          IN  gr' = [op |-> "get_record", ptr |-> ptr, res |-> ProviderGetRecord(ptr)]
    /\ UNCHANGED <<op, status, scan_p_min_len, outer, frontiter, out, visited, last_end>>
    /\ UNCHANGED <<rec_vars, sch_vars, env_vars, cat_vars>>

\* table.rows(): the flat_map over partition_pointer is created
RowsStart ==
    /\ op = "idle"
    /\ op' = "rows"
    /\ outer' = [part |-> 0]
    /\ gr' = NoCall
    /\ UNCHANGED <<status, scan_p_min_len, frontiter, out, visited, last_end>>
    /\ UNCHANGED <<rec_vars, sch_vars, env_vars, cat_vars>>

\* rows: the flat_map has no inner iterator and takes the next partition:
\* page_provider.get(*part).unwrap().into_records()
RowsOpenPartition ==
    /\ op = "rows" /\ status = "running" /\ frontiter = None
    /\ outer.part < Len(partition_pointer)
    /\ LET page == ProviderGet(partition_pointer[outer.part + 1])
       IN  IF page.tag = "None"
           THEN /\ status' = "panic"
                /\ UNCHANGED <<frontiter, visited, outer>>
           ELSE /\ frontiter' = Some(RecordIteratorNew(page.val, FALSE))
                /\ visited' = Append(visited, page.val.ptr)
                /\ outer' = [part |-> outer.part + 1]
                /\ UNCHANGED status
    /\ UNCHANGED <<op, scan_p_min_len, out, last_end, gr>>
    /\ UNCHANGED <<rec_vars, sch_vars, env_vars, cat_vars>>

\* rows: no partition is left
RowsEnd ==
    /\ op = "rows" /\ status = "running" /\ frontiter = None
    /\ outer.part >= Len(partition_pointer)
    /\ status' = "done"
    /\ UNCHANGED <<op, scan_p_min_len, outer, frontiter, out, visited, last_end, gr>>
    /\ UNCHANGED <<rec_vars, sch_vars, env_vars, cat_vars>>

\* One pull of the inner iterator: RecordIterator::next, then
\* .map(|rec| self.schema.parse(rec)).  A None drops the inner iterator of the
\* flat_map.
PullRecord ==
    /\ op \in {"rows", "scan_db", "scan_db_from"} /\ status = "running" /\ frontiter # None
    /\ op = "rows" => Len(out) < MaxYield
    /\ LET r == RecordIteratorNext(frontiter.val)
           row == SchemaParse(TableColumns, r.res.val)
       IN  /\ visited' = IF r.moved THEN Append(visited, r.it.current_page.ptr)
                                    ELSE visited
           /\ CASE r.res.tag = "Some" /\ row.tag = "Ok" ->
                     /\ out' = Append(out, [page |-> r.it.current_page.ptr,
                                            slot |-> r.it.idx - 1,
                                            part |-> outer,
                                            row |-> row.val])
                     /\ frontiter' = Some(r.it)
                     /\ UNCHANGED <<status, last_end>>
                [] r.res.tag = "None" ->
                     /\ frontiter' = None
                     /\ last_end' = Some([page |-> r.it.current_page.ptr, idx |-> r.it.idx])
                     /\ UNCHANGED <<status, out>>
                [] OTHER ->
                     /\ status' = "panic"
                     /\ UNCHANGED <<frontiter, out, last_end>>
    /\ UNCHANGED <<op, scan_p_min_len, outer, gr>>
    /\ UNCHANGED <<rec_vars, sch_vars, env_vars, cat_vars>>

LinkedNext == GetRecord \/ RowsStart \/ RowsOpenPartition \/ RowsEnd \/ PullRecord

SpecLinked == LinkedInit /\ [][LinkedNext]_vars

\* ------------------------------------------------------------------ table.rs: degraded scan

\* PageProvider::num_pages(file_id) of the scanned stores: file 1 has NumPages
\* pages, any other file one
NumPagesOf(file_id) == IF file_id = 1 THEN NumPages ELSE 1

ScanAddrs == { Ptr(1, id) : id \in 0..(NumPages - 1) } \cup { Ptr(2, 0) }

\* What an address of a scanned store holds: nothing, a data page with
\* p_min_len 5 and two records whose next pointer leads to page (1, 0), an empty
\* data page with p_min_len 5, a data page with p_min_len 6, an index page with
\* p_min_len 5.
ScanPages(a) ==
    { None,
      Some(MkPage(a, "Data", 5, 2, SlotsTwo.slots, Some(Ptr(1, 0)))),
      Some(MkPage(a, "Data", 5, 0, SlotsEmpty.slots, None)),
      Some(MkPage(a, "Data", 6, 1, SlotsOne.slots, None)),
      Some(MkPage(a, "Index", 5, 1, SlotsOne.slots, None)) }

ScanStores ==
    { g \in [ScanAddrs -> UNION { ScanPages(a) : a \in ScanAddrs }] :
        \A a \in ScanAddrs : g[a] \in ScanPages(a) }

\* the enumerations of the files by PageProvider::file_ids()
FileIdLists == { << 1 >>, << 1, 2 >>, << 2, 1 >> }

ScanInit ==
    /\ store \in ScanStores
    /\ file_ids \in FileIdLists
    /\ partition_pointer \in { << Ptr(1, 0) >>, << Ptr(2, 0) >> }
    /\ op = "idle"
    /\ status = "running"
    /\ scan_p_min_len = 0
    /\ outer = [part |-> 0]
    /\ frontiter = None
    /\ out = << >>
    /\ visited = << >>
    /\ last_end = None
    /\ gr = NoCall
    /\ RecIdle
    /\ SchIdle
    /\ CatIdle

\* the file the outer flat_map of scan_db is at
ScanFileMut(pos) == file_ids[Len(file_ids) - pos]
ScanFile(pos) == file_ids[pos + 1]

\* the filter of scan_db: p_min_len and page type
ScanSelectsMut(page, p_min_len) == page.p_min_len = p_min_len
ScanSelects(page, p_min_len) == page.p_min_len = p_min_len /\ page.ty = "Data"

\* table.scan_db(): the first partition page is read for its p_min_len
ScanDbStart ==
    /\ op = "idle"
    /\ op' = "scan_db"
    /\ gr' = NoCall
    /\ outer' = [file |-> 0, page |-> 0]
    /\ LET first_page == IF Len(partition_pointer) = 0 THEN None
                         ELSE ProviderGet(partition_pointer[1])
       IN  IF first_page.tag = "None"
           THEN status' = "panic" /\ UNCHANGED scan_p_min_len
           ELSE scan_p_min_len' = first_page.val.p_min_len /\ UNCHANGED status
    /\ UNCHANGED <<frontiter, out, visited, last_end>>
    /\ UNCHANGED <<rec_vars, sch_vars, env_vars, cat_vars>>

\* scan_db: the filter_map looks at the next page of the current file and, when
\* it is selected, the flat_map opens page.local_records() on it
ScanNextPage ==
    /\ op = "scan_db" /\ status = "running" /\ frontiter = None
    /\ outer.file < Len(file_ids)
    /\ outer.page < NumPagesOf(ScanFile(outer.file))
    /\ LET page == ProviderGet(Ptr(ScanFile(outer.file), outer.page))
       IN  IF page.tag = "Some" /\ ScanSelects(page.val, scan_p_min_len)
           THEN /\ frontiter' = Some(RecordIteratorNew(page.val, TRUE))
                /\ visited' = Append(visited, page.val.ptr)
           ELSE UNCHANGED <<frontiter, visited>>
    /\ outer' = [outer EXCEPT !.page = outer.page + 1]
    /\ UNCHANGED <<op, status, scan_p_min_len, out, last_end, gr>>
    /\ UNCHANGED <<rec_vars, sch_vars, env_vars, cat_vars>>

\* scan_db: the page range of the current file is exhausted
ScanNextFile ==
    /\ op = "scan_db" /\ status = "running" /\ frontiter = None
    /\ outer.file < Len(file_ids)
    /\ outer.page >= NumPagesOf(ScanFile(outer.file))
    /\ outer' = [file |-> outer.file + 1, page |-> 0]
    /\ UNCHANGED <<op, status, scan_p_min_len, frontiter, out, visited, last_end, gr>>
    /\ UNCHANGED <<rec_vars, sch_vars, env_vars, cat_vars>>

\* scan_db: no file is left
ScanEnd ==
    /\ op = "scan_db" /\ status = "running" /\ frontiter = None
    /\ outer.file >= Len(file_ids)
    /\ status' = "done"
    /\ UNCHANGED <<op, scan_p_min_len, outer, frontiter, out, visited, last_end, gr>>
    /\ UNCHANGED <<rec_vars, sch_vars, env_vars, cat_vars>>

ScanNext == ScanDbStart \/ ScanNextPage \/ ScanNextFile \/ ScanEnd \/ PullRecord

SpecScanDb == ScanInit /\ [][ScanNext]_vars

\* ------------------------------------------------------------------ lob.rs: inputs

\* bounds: the entries of a LOB node, and the extents and the entries of one
\* level LobPointer::read is followed to
MaxLinks == 2
MaxLobBlocks == 8
MaxLobEntries == 4

\* the LobPointer the walks start from
LobRoot == LobPointerParse(LobPtrBytes).val

\* the bytes of a record pointer: page_id, file_id, slot_id
PtrBytes(page_id, file_id, slot_id) ==
    U16Bytes(page_id) \o << 0, 0 >> \o U16Bytes(file_id) \o U16Bytes(slot_id)

\* fixed data of LOB records as the engine lays them out (spec section 7):
\* blob_id, type, then the data (Data), length, 4 bytes and the data
\* (SmallRoot), or max_links, cur_links, level and the entries: 4 bytes, then
\* size and pointer (LargeRootYukon), or offset and pointer (Internal).  The
\* k-th entry points to slot 0 of page children[k] of file 1, or is a null
\* pointer (file_id 0) when children[k] = 0; its size / offset is
\* 3000 + 2000 * (k - 1).
BlobId == << 9, 0, 0, 0, 0, 0, 0, 0 >>
MkLobData(data) == BlobId \o U16Bytes(3) \o data
MkLobSmallRoot(data) ==
    BlobId \o U16Bytes(0) \o U16Bytes(Len(data)) \o << 0, 0, 0, 0 >> \o data
MkLobTyped(ty) == BlobId \o U16Bytes(ty) \o << 0, 0, 0, 0, 0, 0 >>
MkLobNode(kind, cur_links, children) ==
    LET n == Len(children)
        ptr(k) == PtrBytes(children[k], IF children[k] = 0 THEN 0 ELSE 1, 0)
        size(k) == U16Bytes(3000 + 2000 * (k - 1))
        entry(k) == IF kind = "LargeRootYukon"
                    THEN size(k) \o << 0, 0 >> \o ptr(k)
                    ELSE size(k) \o << 0, 0, 0, 0, 0, 0 >> \o ptr(k)
        entries[k \in 0..n] == IF k = 0 THEN << >> ELSE entries[k - 1] \o entry(k)
    IN  BlobId \o U16Bytes(IF kind = "LargeRootYukon" THEN 5 ELSE 2)
        \o U16Bytes(MaxLinks + 1) \o U16Bytes(cur_links) \o U16Bytes(0)
        \o (IF kind = "LargeRootYukon" THEN << 0, 0, 0, 0 >> ELSE << >>)
        \o entries[n]

\* a Blob record with the given fixed data, and the text page holding it in
\* slot 0
LobRecord(fixed) == << 8, 0 >> \o U16Bytes(4 + Len(fixed)) \o fixed \o U16Bytes(0)
LobPage(id, fixed) ==
    Some(MkPage(Ptr(1, id), "TextMix", 0, 1, << LobRecord(fixed) >>, None))

\* the nodes with every list of up to MaxLinks children among targets, and
\* cur_links = the number of entries present + extra
LobNodes(targets, extra) ==
    { MkLobNode(kind, Len(ch) + extra, ch) :
        kind \in {"LargeRootYukon", "Internal"},
        ch \in UNION { [1..n -> targets] : n \in 0..MaxLinks } }

\* the store of the spec's example: a LargeRootYukon root with cur_links = 2
\* whose children are Data leaves of 3000 and 5000 bytes
LobExampleData(n) == [k \in 1..n |-> k % 251]
LobExampleStore ==
    [a \in { Ptr(1, 7), Ptr(1, 8), Ptr(1, 9) } |->
       CASE a.page_id = 7 -> LobPage(7, MkLobNode("LargeRootYukon", 2, << 8, 9 >>))
         [] a.page_id = 8 -> LobPage(8, MkLobData(LobExampleData(3000)))
         [] OTHER -> LobPage(9, MkLobData(LobExampleData(5000)))]

\* the page stores of the walks: page 7 (the root) is a node over pages 8, 9,
\* the page 10 that does not exist and the null pointer, or a leaf, a Null or
\* unknown type, a record too short for a type, or missing; page 8 is a node
\* over its parent, itself and page 9, or a leaf or a Null; page 9 is a leaf,
\* a Null or missing
LobStores ==
    LET roots == { Some(MkPage(Ptr(1, 7), "TextMix", 0, 1, << LobRecord(f) >>, None)) :
                     f \in LobNodes({8, 9, 10, 0}, 0)
                           \cup { MkLobData(<< 65 >>), MkLobSmallRoot(<< 66, 67 >>),
                                  MkLobTyped(8), MkLobTyped(7), BlobId } }
                 \cup { None }
        mids == { LobPage(8, f) :
                    f \in LobNodes({7, 8, 9}, 0)
                          \cup { MkLobData(<< 68, 69 >>), MkLobTyped(8) } }
        leaves == { LobPage(9, MkLobData(<< 70 >>)), LobPage(9, MkLobSmallRoot(<< 71, 72, 73 >>)),
                    LobPage(9, MkLobTyped(8)), None }
    IN  { [a \in { Ptr(1, 7), Ptr(1, 8), Ptr(1, 9) } |->
             CASE a.page_id = 7 -> r [] a.page_id = 8 -> m [] OTHER -> l] :
          r \in roots, m \in mids, l \in leaves }
        \cup { LobExampleStore }

\* ------------------------------------------------------------------ lob.rs: actions

\* a page provider over a LOB store, nothing read yet
LobInit ==
    /\ store \in LobStores
    /\ file_ids = << 1 >>
    /\ partition_pointer = << >>
    /\ op = "idle"
    /\ status = "running"
    /\ scan_p_min_len = 0
    /\ outer = [part |-> 0]
    /\ frontiter = None
    /\ out = << >>
    /\ visited = << >>
    /\ last_end = None
    /\ gr = NoCall
    /\ col_info = << >>
    /\ schema_out = NotCalled
    /\ alloc_units = << >>
    /\ row_sets = << >>
    /\ boot = BootIdle
    /\ db_out = DbIdle
    /\ lob_read = LobIdle
    /\ call = CallIdle
    /\ RecIdle
    /\ SchIdle

LobFrame ==
    UNCHANGED <<rec_vars, sch_vars, env_vars, scan_vars,
                col_info, schema_out, alloc_units, row_sets, boot, db_out>>

\* LobPointer::read up to the while loop: the root record and its entry
LobReadStart ==
    /\ lob_read.status = "idle"
    /\ LET record == ProviderGetRecord(LobRoot.ptr)
           root == LobEntryParse(record.val)
           failed == IF record.tag # "Some" THEN record ELSE root
       IN  lob_read' =
              IF failed.tag = "Panic" THEN [lob_read EXCEPT !.status = "panic", !.res = Panic]
              ELSE IF failed.tag = "None" THEN [lob_read EXCEPT !.status = "done", !.res = None]
              ELSE [lob_read EXCEPT !.status = "running",
                                    !.entries = << root.val >>, !.todo = << root.val >>]
    /\ UNCHANGED call
    /\ LobFrame

\* one turn of `for entry in entries`: a leaf is pushed with its own length,
\* a node is read through sub_entries() (every item of which holds Some entry,
\* so that `entry?` passes)
LobReadEntry ==
    /\ lob_read.status = "running" /\ lob_read.todo # << >>
    /\ Len(lob_read.data_blocks) <= MaxLobBlocks
    /\ Len(lob_read.new_entries) <= MaxLobEntries
    /\ LET entry == Head(lob_read.todo)
           Read(sub) ==
              IF sub.panic
              THEN [lob_read EXCEPT !.status = "panic", !.res = Panic]
              ELSE [lob_read EXCEPT !.todo = Tail(@),
                                    !.data_blocks = @ \o sub.blocks,
                                    !.new_entries = @ \o sub.entries]
       IN  lob_read' =
              IF IsLobLeaf(entry)
              THEN [lob_read EXCEPT !.todo = Tail(@),
                                    !.data_blocks = Append(@, [offs |-> Len(entry.data),
                                                               data |-> entry.data])]
              ELSE Bind(LobSubEntries(entry, 0), Read)
    /\ UNCHANGED call
    /\ LobFrame

\* the end of the for loop: entries = new_entries, and the test of the while
\* loop, after which Some(LobDataBlocks { data_blocks }) is returned
LobReadLevel ==
    /\ lob_read.status = "running" /\ lob_read.todo = << >>
    /\ lob_read' =
          IF lob_read.new_entries = << >>
          THEN [lob_read EXCEPT !.status = "done", !.entries = << >>,
                                !.res = Some(lob_read.data_blocks)]
          ELSE [lob_read EXCEPT !.entries = lob_read.new_entries,
                                !.todo = lob_read.new_entries,
                                !.new_entries = << >>]
    /\ UNCHANGED call
    /\ LobFrame

LobNext == LobReadStart \/ LobReadEntry \/ LobReadLevel

SpecLob == LobInit /\ [][LobNext]_vars

\* the stores of the walks whose root is a node over page 8, page 8 being a
\* node over its parent, itself and page 9, and page 9 a leaf or missing
LobCyclicStores ==
    { st \in LobStores :
        /\ st # LobExampleStore
        /\ st[Ptr(1, 7)] \in { LobPage(7, f) : f \in LobNodes({8}, 0) }
        /\ st[Ptr(1, 8)] \in { LobPage(8, f) : f \in LobNodes({7, 8, 9}, 0) }
        /\ st[Ptr(1, 9)] \in { LobPage(9, MkLobData(<< 70 >>)), None } }

LobLiveInit == LobInit /\ store \in LobCyclicStores

\* the walk is not suspended for ever: LobPointer::read is one call
SpecLobLive ==
    LobLiveInit /\ [][LobNext]_vars /\ WF_vars(LobReadEntry) /\ WF_vars(LobReadLevel)

\* ------------------------------------------------------------------ raw_page.rs: draining a record iterator

\* page.into_records() of the first page of a store, pulled until it returns
\* None; outer holds the parity of the number of pulls
DrainInit ==
    /\ store \in LinkedStores
    /\ file_ids = << 1 >>
    /\ partition_pointer = << Ptr(1, 0) >>
    /\ op = "drain"
    /\ status = "running"
    /\ scan_p_min_len = 0
    /\ outer = [pulls |-> 0]
    /\ frontiter = Some(RecordIteratorNew(ProviderGet(Ptr(1, 0)).val, FALSE))
    /\ out = << >>
    /\ visited = << >>
    /\ last_end = None
    /\ gr = NoCall
    /\ RecIdle
    /\ SchIdle
    /\ CatIdle

\* one pull: RecordIterator::next
DrainPull ==
    /\ op = "drain" /\ status = "running"
    /\ \E r \in { RecordIteratorNext(frontiter.val) } :
          /\ frontiter' = Some(r.it)
          /\ status' = CASE r.res.tag = "Some" -> "running"
                         [] r.res.tag = "None" -> "done"
                         [] OTHER -> "panic"
    /\ outer' = [pulls |-> (outer.pulls + 1) % 2]
    /\ UNCHANGED <<op, scan_p_min_len, out, visited, last_end, gr>>
    /\ UNCHANGED <<rec_vars, sch_vars, env_vars, cat_vars>>

\* the consumer keeps pulling: for rec in page.into_records()
SpecDrain == DrainInit /\ [][DrainPull]_vars /\ WF_vars(DrainPull)

\* ------------------------------------------------------------------ lob.rs: read_idx

\* the nodes LobEntry::parse accepts, parsed from records whose cur_links is
\* the number of entries in the fixed data, or one or two more, the entries
\* being pointers to page 8 or null pointers; and an index up to one past
\* the last entry
ReadIdxInputs ==
    { [node |-> LobEntryParse(RecordParse(LobRecord(f), FALSE, 0).val).val, idx |-> idx] :
        f \in UNION { LobNodes({8, 0}, extra) : extra \in 0..2 },
        idx \in 0..(MaxLinks + 1) }

ReadIdxInit ==
    /\ call \in { [op |-> "none", arg |-> Some(a), res |-> NotCalled] : a \in ReadIdxInputs }
    /\ lob_read = LobIdle
    /\ col_info = << >>
    /\ schema_out = NotCalled
    /\ alloc_units = << >>
    /\ row_sets = << >>
    /\ boot = BootIdle
    /\ db_out = DbIdle
    /\ RecIdle
    /\ SchIdle
    /\ ScanIdle

\* node.read_idx(idx)
CallReadIdx ==
    /\ call.op = "none"
    /\ call' = [call EXCEPT !.op = "read_idx",
                            !.res = LobReadIdx(call.arg.val.node, call.arg.val.idx)]
    /\ UNCHANGED lob_read
    /\ LobFrame

SpecReadIdx == ReadIdxInit /\ [][CallReadIdx]_vars

\* ------------------------------------------------------------------ raw_page.rs: slot lookup on the bytes of a page

PAGE_SIZE == 8192

\* RawPage::record(idx) on the bytes of the page: the slot entry is read at
\* PAGE_SIZE - 2 * idx - 2 and the record is parsed from &data[offset..]
RawPageRecordAt(data, header, idx) ==
    IF SlotOutOfRange(header, idx) THEN None
    ELSE LET slot_array_position == PAGE_SIZE - 2 * idx - 2
         IN  IF slot_array_position < 0 THEN Panic      \* usize underflow: overflow check, or
                                                        \* wrapped and &self.data[huge..]
             ELSE LET offset == ReadU16(data, slot_array_position)
                  IN  IF offset > Len(data) THEN Panic  \* &self.data[offset..]
                      ELSE RecordParse(SubSeq(data, offset + 1, Len(data)),
                                       header.ty = "Index", header.p_min_len)

\* the offset of the first record of a page, behind the 96 byte header
FirstRecordOffset == 96

\* the slot counts, slot indices and stored slot offsets of the generated pages
SlotCounts == { 1, 2, PAGE_SIZE \div 2, PAGE_SIZE \div 2 + 1 }
SlotIdxs == { 0, 1, PAGE_SIZE \div 2 - 1, PAGE_SIZE \div 2 }
SlotOffsets == { FirstRecordOffset, PAGE_SIZE - 8, PAGE_SIZE - 1, PAGE_SIZE, PAGE_SIZE + 1 }

\* the header fields RawPage::record reads
SlotHeader(arg) == [slot_count |-> arg.slot_count, ty |-> arg.ty, p_min_len |-> 5]

\* the 8192 bytes of a page with one record behind the header and the slot
\* entry of arg.idx holding arg.offset (where that entry lies inside the page)
SlotPage(arg) ==
    LET rec == MkRow(<< 42 >>, 1, None, None)
        entry == PAGE_SIZE - 2 * arg.idx - 2
        bytes == U16Bytes(arg.offset)
    IN  [k \in 1..PAGE_SIZE |->
            IF entry >= 0 /\ k - 1 \in {entry, entry + 1} THEN bytes[k - entry]
            ELSE IF k - 1 >= FirstRecordOffset /\ k - 1 < FirstRecordOffset + Len(rec)
            THEN rec[k - FirstRecordOffset]
            ELSE 0]

SlotInputs ==
    [slot_count : SlotCounts, idx : SlotIdxs, offset : SlotOffsets, ty : {"Data", "Index"}]

SlotInit ==
    /\ call \in { [op |-> "none", arg |-> Some(a), res |-> NotCalled] : a \in SlotInputs }
    /\ lob_read = LobIdle
    /\ col_info = << >>
    /\ schema_out = NotCalled
    /\ alloc_units = << >>
    /\ row_sets = << >>
    /\ boot = BootIdle
    /\ db_out = DbIdle
    /\ RecIdle
    /\ SchIdle
    /\ ScanIdle

\* page.record(idx)
CallRecord ==
    /\ call.op = "none"
    /\ call' = [call EXCEPT !.op = "record",
                            !.res = RawPageRecordAt(SlotPage(call.arg.val),
                                                    SlotHeader(call.arg.val),
                                                    call.arg.val.idx)]
    /\ UNCHANGED lob_read
    /\ LobFrame

SpecSlot == SlotInit /\ [][CallRecord]_vars

\* ------------------------------------------------------------------ table.rs: degraded scan from a start page

\* What an address of the stores scanned from a start page holds: nothing, a
\* data page with p_min_len 5 and two records, a data page with p_min_len 6, an
\* index page with p_min_len 5.
ScanFromPages(a) ==
    { None,
      Some(MkPage(a, "Data", 5, 2, SlotsTwo.slots, Some(Ptr(1, 0)))),
      Some(MkPage(a, "Data", 6, 1, SlotsOne.slots, None)),
      Some(MkPage(a, "Index", 5, 1, SlotsOne.slots, None)) }

ScanFromStores ==
    { g \in [ScanAddrs -> UNION { ScanFromPages(a) : a \in ScanAddrs }] :
        \A a \in ScanAddrs : g[a] \in ScanFromPages(a) }

\* the start pointers: every page of the two files and the page after the last
ScanFromStarts == { Ptr(1, id) : id \in 0..NumPages } \cup { Ptr(2, 0), Ptr(2, 1) }

\* a Table over a page store whose provider lists both files, and the start
\* pointer of the scan_db_from that follows the scan_db
ScanFromInit ==
    /\ store \in ScanFromStores
    /\ file_ids \in { << 1, 2 >>, << 2, 1 >> }
    /\ partition_pointer \in { << Ptr(1, 0) >>, << Ptr(2, 0) >> }
    /\ call \in { [op |-> "none", arg |-> Some(start), res |-> NotCalled] :
                    start \in ScanFromStarts }
    /\ op = "idle"
    /\ status = "running"
    /\ scan_p_min_len = 0
    /\ outer = [part |-> 0]
    /\ frontiter = None
    /\ out = << >>
    /\ visited = << >>
    /\ last_end = None
    /\ gr = NoCall
    /\ lob_read = LobIdle
    /\ col_info = << >>
    /\ schema_out = NotCalled
    /\ alloc_units = << >>
    /\ row_sets = << >>
    /\ boot = BootIdle
    /\ db_out = DbIdle
    /\ RecIdle
    /\ SchIdle

\* the first page_id of the range of scan_db_from: (start.page_id..num_pages(j))
ScanFromFirstMut(start) == 0
ScanFromFirst(start) == start.page_id

\* table.scan_db_from(start), called when the scan_db on the same table has
\* ended (its outcome is kept in call.res): the first partition page is read
\* for its p_min_len
ScanDbFromStart ==
    /\ op = "scan_db" /\ status \in {"done", "panic"}
    /\ call.op = "none"
    /\ op' = "scan_db_from"
    /\ call' = [call EXCEPT !.op = "scan_db_from", !.res = [status |-> status, out |-> out]]
    /\ outer' = [file |-> call.arg.val.file_id, page |-> ScanFromFirst(call.arg.val)]
    /\ LET first_page == IF Len(partition_pointer) = 0 THEN None
                         ELSE ProviderGet(partition_pointer[1])
       IN  /\ IF first_page.tag = "None"
              THEN status' = "panic" /\ UNCHANGED scan_p_min_len
              ELSE scan_p_min_len' = first_page.val.p_min_len /\ status' = "running"
           /\ gr' = IF Len(partition_pointer) = 0 THEN NoCall
                    ELSE [op |-> "get", ptr |-> partition_pointer[1], res |-> first_page.tag]
    /\ frontiter' = None
    /\ out' = << >>
    /\ visited' = << >>
    /\ last_end' = None
    /\ UNCHANGED <<col_info, schema_out, alloc_units, row_sets, boot, db_out, lob_read>>
    /\ UNCHANGED <<rec_vars, sch_vars, env_vars>>

\* scan_db_from: the filter_map looks at the next page of file j and, when it
\* is selected, the flat_map opens page.local_records() on it
ScanFromNextPage ==
    /\ op = "scan_db_from" /\ status = "running" /\ frontiter = None
    /\ outer.page < NumPagesOf(outer.file)
    /\ LET ptr == Ptr(outer.file, outer.page)
           page == ProviderGet(ptr)
       IN  /\ gr' = [op |-> "get", ptr |-> ptr, res |-> page.tag]
           /\ IF page.tag = "Some" /\ ScanSelects(page.val, scan_p_min_len)
              THEN /\ frontiter' = Some(RecordIteratorNew(page.val, TRUE))
                   /\ visited' = Append(visited, page.val.ptr)
              ELSE UNCHANGED <<frontiter, visited>>
    /\ outer' = [outer EXCEPT !.page = outer.page + 1]
    /\ UNCHANGED <<op, status, scan_p_min_len, out, last_end>>
    /\ UNCHANGED <<rec_vars, sch_vars, env_vars, cat_vars>>

\* scan_db_from: the page range is exhausted
ScanFromEnd ==
    /\ op = "scan_db_from" /\ status = "running" /\ frontiter = None
    /\ outer.page >= NumPagesOf(outer.file)
    /\ status' = "done"
    /\ UNCHANGED <<op, scan_p_min_len, outer, frontiter, out, visited, last_end, gr>>
    /\ UNCHANGED <<rec_vars, sch_vars, env_vars, cat_vars>>

ScanFromNext ==
    \/ ScanDbStart \/ ScanNextPage \/ ScanNextFile \/ ScanEnd \/ PullRecord
    \/ ScanDbFromStart \/ ScanFromNextPage \/ ScanFromEnd

SpecScanFrom == ScanFromInit /\ [][ScanFromNext]_vars

\* ------------------------------------------------------------------ types.rs: the two decoder entry points

\* the record of one fixed-width and one variable-length cell handed to
\* Schema::parse for a one-column schema
DecodeRecord == MkRow(WideFixed, 1, Some(<< 0 >>), Some(<< VarCol(FALSE, << >>) >>))

\* the calls: t.parse on a cursor over wide or empty fixed data,
\* t.parse_var_length on empty, short or LOB pointer data, and Schema::parse of
\* a one-column schema of type t
DecodeInputs ==
    { [entry |-> "parse", ty |-> ty, complex |-> FALSE, bytes |-> bytes] :
        ty \in AllTypes, bytes \in {WideFixed, << >>} }
    \cup { [entry |-> "parse_var_length", ty |-> ty, complex |-> complex, bytes |-> bytes] :
             ty \in AllTypes, complex \in BOOLEAN, bytes \in {<< >>, << 65 >>, LobPtrBytes} }
    \cup { [entry |-> "schema", ty |-> ty, complex |-> FALSE, bytes |-> DecodeRecord] :
             ty \in AllTypes }

DecodeInit ==
    /\ call \in { [op |-> "none", arg |-> Some(a), res |-> NotCalled] : a \in DecodeInputs }
    /\ lob_read = LobIdle
    /\ col_info = << >>
    /\ schema_out = NotCalled
    /\ alloc_units = << >>
    /\ row_sets = << >>
    /\ boot = BootIdle
    /\ db_out = DbIdle
    /\ RecIdle
    /\ SchIdle
    /\ ScanIdle

\* t.parse(&mut bit_parser, &mut cursor) on a fresh bit parser and cursor
CallParse ==
    /\ call.op = "none" /\ call.arg.val.entry = "parse"
    /\ LET a == call.arg.val
           r == SqlTypeParse(a.ty, BitParserNew, Slice(a.bytes, 0, Len(a.bytes)), 0)
       IN  call' = [call EXCEPT !.op = "parse",
                                !.res = [tag |-> r.tag, rejected |-> ParseRejects(a.ty)]]
    /\ UNCHANGED lob_read
    /\ LobFrame

\* t.parse_var_length(complex, data)
CallParseVarLength ==
    /\ call.op = "none" /\ call.arg.val.entry = "parse_var_length"
    /\ LET a == call.arg.val
           r == ParseVarLength(a.ty, a.complex, Slice(a.bytes, 0, Len(a.bytes)))
       IN  call' = [call EXCEPT !.op = "parse_var_length",
                                !.res = [tag |-> r.tag,
                                         rejected |-> ParseVarLengthRejects(a.ty)]]
    /\ UNCHANGED lob_read
    /\ LobFrame

\* Schema::parse(record) for the schema of one column of type t: the column is
\* handed to parse_var_length when t.is_var_length() and to parse otherwise
CallSchemaParse ==
    /\ call.op = "none" /\ call.arg.val.entry = "schema"
    /\ LET a == call.arg.val
           columns == << [data_type |-> a.ty, computed |-> FALSE] >>
           r == SchemaParse(columns, RecordParse(a.bytes, FALSE, 0).val)
       IN  call' = [call EXCEPT !.op = "schema",
                                !.res = [tag |-> r.tag,
                                         rejected |-> IF IsVarLength(a.ty)
                                                      THEN ParseVarLengthRejects(a.ty)
                                                      ELSE ParseRejects(a.ty)]]
    /\ UNCHANGED lob_read
    /\ LobFrame

DecodeNext == CallParse \/ CallParseVarLength \/ CallSchemaParse

SpecDecode == DecodeInit /\ [][DecodeNext]_vars

\* ------------------------------------------------------------------ claims: record layer

\* the 3-bit record type in bits 1..3 of byte 0 of the input
InputTypeCode == (rec_in.data[1] % 16) \div 2

\* C7: Record.parse returns None (an error value, not a crash) when the record
\* type of the input is outside {Primary(0), Index(3), Blob(4)}.
C7_UnsupportedTypeIsNone ==
    (rec_out # NotCalled /\ InputTypeCode \notin {0, 3, 4}) => rec_out = None

\* The bits the null bitmap of the parsed record holds: 8 * ceil(column_count / 8),
\* and none without HAS_NULL_BITMAP.
BitmapBits ==
    IF TagContains(rec_out.val.tag_a, HAS_NULL_BITMAP)
    THEN 8 * ((rec_out.val.column_count + 7) \div 8)
    ELSE 0

\* C8: is_column_null(i) returns false for every index i outside the null
\* bitmap, with or without a bitmap, and fails for no index.
C8_NullFalseOutsideBitmap ==
    (acc.op = "is_column_null" /\ acc.idx >= BitmapBits) => acc.res = Some(FALSE)

\* The variable block of the input as the record layout gives it (non-index
\* record): the count field follows the fixed data, the column count and the null
\* bitmap; the offset table follows the count field.
C9_CountPos ==
    LET lf == ReadU16(rec_in.data, 2)
        cc == ReadU16(rec_in.data, lf)
        nb == IF (rec_in.data[1] \div 16) % 2 = 1 THEN (cc + 7) \div 8 ELSE 0
    IN  lf + 2 + nb
C9_Count == ReadU16(rec_in.data, C9_CountPos)
C9_Entry(k) == ReadU16(rec_in.data, C9_CountPos + 2 + 2 * k)
\* e(k): the low 15 bits of entry k; e(-1): the first byte after the table
C9_E(k) == IF k < 0 THEN C9_CountPos + 2 + 2 * C9_Count ELSE C9_Entry(k) % 32768
C9_WellFormed ==
    /\ \A k \in 0..(C9_Count - 1) : C9_E(k - 1) <= C9_E(k)
    /\ \A k \in 0..(C9_Count - 1) : C9_E(k) <= Len(rec_in.data)
C9_Expected(i) ==
    Some([complex |-> C9_Entry(i) >= 32768,
          data |-> [pos |-> C9_E(i - 1),
                    bytes |-> SubSeq(rec_in.data, C9_E(i - 1) + 1, C9_E(i))]])

Decodable(page, idx) == RawPageRecord(page, idx).tag = "Some"

\* the page and slot each yielded row came from
Origins == [k \in 1..Len(out) |-> [page |-> out[k].page, slot |-> out[k].slot]]

\* A chain p0 -> ... -> pk from ptr: at most `fuel` pages, linked by
\* next_page_ptr, ending in a null pointer, every page available and every slot
\* decodable.
RECURSIVE ChainOK(_, _)
ChainOK(ptr, fuel) ==
    /\ fuel > 0
    /\ ProviderGet(ptr).tag = "Some"
    /\ LET page == ProviderGet(ptr).val
       IN  /\ \A idx \in 0..(page.slot_count - 1) : Decodable(page, idx)
           /\ page.next_page_ptr.tag = "Some" => ChainOK(page.next_page_ptr.val, fuel - 1)

\* the records of the chain from ptr: page by page, ascending slot index
RECURSIVE ChainRecords(_, _)
ChainRecords(ptr, fuel) ==
    IF fuel = 0 \/ ProviderGet(ptr).tag = "None" THEN << >>
    ELSE LET page == ProviderGet(ptr).val
         IN  [idx \in 1..page.slot_count |-> [page |-> ptr, slot |-> idx - 1]]
             \o (IF page.next_page_ptr.tag = "Some"
                 THEN ChainRecords(page.next_page_ptr.val, fuel - 1)
                 ELSE << >>)

\* the records of the chains of the first n partitions, in partition_pointer order
RECURSIVE PartitionRecords(_)
PartitionRecords(n) ==
    IF n = 0 THEN << >>
    ELSE PartitionRecords(n - 1) \o ChainRecords(partition_pointer[n], NumPages)

\* C1: for page chains p0 -> ... -> pk (every page available, every slot
\* decodable) Table.rows() yields the records of p0 in ascending slot index, then
\* those of p1, and so on, partition after partition in partition_pointer order.
C1_LinkedScanOrder ==
    (/\ op = "rows" /\ status = "done"
     /\ \A n \in 1..Len(partition_pointer) : ChainOK(partition_pointer[n], NumPages))
    => Origins = PartitionRecords(Len(partition_pointer))

\* every slot of every page of the store decodes
AllDecodable ==
    \A a \in DOMAIN store :
        store[a].tag = "Some" =>
            \A idx \in 0..(store[a].val.slot_count - 1) : Decodable(store[a].val, idx)

\* C2: the linked record iterator reports end-of-iteration only when the slots
\* of the current page are exhausted and its next_page_ptr is null or the
\* provider returns None for it (stated for stores whose slots all decode).
C2_EndOnlyAtChainEnd ==
    (op = "rows" /\ last_end.tag = "Some" /\ AllDecodable) =>
        LET page == ProviderGet(last_end.val.page).val
        IN  /\ last_end.val.idx >= page.slot_count
            /\ \/ page.next_page_ptr.tag = "None"
               \/ ProviderGet(page.next_page_ptr.val).tag = "None"

\* C3: when slot i of a page fails structural validation only that slot is
\* dropped: the finished scan has yielded a row for every decodable slot j > i
\* of the same page.
C3_OnlyBadSlotDropped ==
    (op = "rows" /\ status = "done") =>
        \A k \in 1..Len(visited) :
            LET page == ProviderGet(visited[k]).val
            IN  \A i, j \in 0..(page.slot_count - 1) :
                    (i < j /\ ~Decodable(page, i) /\ Decodable(page, j)) =>
                        \E m \in 1..Len(out) : Origins[m] = [page |-> visited[k], slot |-> j]

\* C6: get_record(ptr) returns None whenever get(ptr.page_ptr) is None or
\* ptr.slot_id >= slot_count of that page; every record returned by get_record
\* or by a record iterator was read from a slot index below slot_count.
C6_SlotBelowCount ==
    /\ gr.op = "get_record" =>
          LET page == ProviderGet(gr.ptr.page_ptr)
          IN  /\ (page.tag = "None" \/ gr.ptr.slot_id >= page.val.slot_count)
                    => gr.res = None
              /\ gr.res.tag = "Some" =>
                    (page.tag = "Some" /\ gr.ptr.slot_id < page.val.slot_count)
    /\ \A m \in 1..Len(out) :
          /\ ProviderGet(out[m].page).tag = "Some"
          /\ out[m].slot >= 0
          /\ out[m].slot < ProviderGet(out[m].page).val.slot_count

\* get_record for the first slot index past slot_count, where the slot array
\* still holds the offset of a record that decodes
C6_Witness ==
    /\ gr.op = "get_record"
    /\ ProviderGet(gr.ptr.page_ptr).tag = "Some"
    /\ gr.ptr.slot_id = ProviderGet(gr.ptr.page_ptr).val.slot_count
    /\ gr.ptr.slot_id < Len(ProviderGet(gr.ptr.page_ptr).val.slots)
    /\ gr.res = None

\* ------------------------------------------------------------------ claims: degraded scan

\* (a1, b1, c1) before (a2, b2, c2)
LexLess(a1, b1, c1, a2, b2, c2) ==
    \/ a1 < a2
    \/ a1 = a2 /\ b1 < b2
    \/ a1 = a2 /\ b1 = b2 /\ c1 < c2

\* C4 as stated: scan_db yields rows in (file_id ascending, page_id ascending,
\* slot index ascending) order, for any sequence file_ids() returns.
C4_FileIdAscending ==
    op = "scan_db" =>
        \A m \in 1..(Len(out) - 1) :
            LexLess(out[m].page.file_id, out[m].page.page_id, out[m].slot,
                    out[m + 1].page.file_id, out[m + 1].page.page_id, out[m + 1].slot)

\* file_ids() is ascending
FileIdsAscending == \A k \in 1..(Len(file_ids) - 1) : file_ids[k] < file_ids[k + 1]

\* C4 amended: scan_db yields rows in (position of the file in file_ids(),
\* page_id ascending, slot index ascending) order, each row from a page of the
\* file at that position; that is file_id ascending when file_ids() is ascending.
C4_FileIdsOrder ==
    op = "scan_db" =>
        /\ \A m \in 1..Len(out) : file_ids[out[m].part.file + 1] = out[m].page.file_id
        /\ \A m \in 1..(Len(out) - 1) :
              LexLess(out[m].part.file, out[m].page.page_id, out[m].slot,
                      out[m + 1].part.file, out[m + 1].page.page_id, out[m + 1].slot)
        /\ FileIdsAscending => C4_FileIdAscending

\* a finished scan with rows of a page of file 2 followed by rows of two pages
\* of file 1
C4_Witness ==
    /\ op = "scan_db" /\ status = "done"
    /\ file_ids = << 2, 1 >>
    /\ Len(out) = 6
    /\ out[1].page = Ptr(2, 0) /\ out[3].page = Ptr(1, 0) /\ out[5].page = Ptr(1, 2)

\* the pages scan_db selects: (f, p) in scan order with f in file_ids(),
\* 0 <= p < num_pages(f), get returns a Data page whose p_min_len is that of
\* the page at partition_pointer[0]
RECURSIVE SelectedPages(_, _)
SelectedPages(pos, page_id) ==
    IF pos > Len(file_ids) THEN << >>
    ELSE IF page_id >= NumPagesOf(file_ids[pos]) THEN SelectedPages(pos + 1, 0)
    ELSE LET a == Ptr(file_ids[pos], page_id)
             want == ProviderGet(partition_pointer[1]).val.p_min_len
             hit == /\ ProviderGet(a).tag = "Some"
                    /\ ProviderGet(a).val.ty = "Data"
                    /\ ProviderGet(a).val.p_min_len = want
         IN  (IF hit THEN << a >> ELSE << >>) \o SelectedPages(pos, page_id + 1)

InSeq(x, seq) == \E k \in 1..Len(seq) : seq[k] = x

\* C5: scan_db emits rows from exactly the selected pages: every row comes from
\* a selected page and from one of its own slots, no page is entered through a
\* next_page_ptr, and the finished scan has opened exactly the selected pages
\* (pages get returns None for are passed over) and yielded every record of
\* each.
C5_ScanSelection ==
    op = "scan_db" =>
        /\ \A m \in 1..Len(out) :
              /\ InSeq(out[m].page, SelectedPages(1, 0))
              /\ out[m].slot < ProviderGet(out[m].page).val.slot_count
        /\ \A k \in 1..Len(visited) : InSeq(visited[k], SelectedPages(1, 0))
        /\ status = "done" =>
              /\ visited = SelectedPages(1, 0)
              /\ \A k \in 1..Len(visited) :
                    \A idx \in 0..(ProviderGet(visited[k]).val.slot_count - 1) :
                        Decodable(ProviderGet(visited[k]).val, idx) =>
                            InSeq([page |-> visited[k], slot |-> idx], Origins)

\* a finished scan that passed a missing page, a page of another p_min_len and
\* an index page, and read both slots of a selected page whose next pointer is
\* set
C5_Witness ==
    /\ op = "scan_db" /\ status = "done"
    /\ file_ids = << 1, 2 >>
    /\ ProviderGet(Ptr(1, 0)).tag = "Some" /\ ProviderGet(Ptr(1, 0)).val.ty = "Index"
    /\ ProviderGet(Ptr(1, 1)).tag = "None"
    /\ ProviderGet(Ptr(1, 2)).tag = "Some" /\ ProviderGet(Ptr(1, 2)).val.p_min_len = 6
    /\ visited = << Ptr(2, 0) >>
    /\ ProviderGet(Ptr(2, 0)).val.next_page_ptr.tag = "Some"
    /\ Len(out) = 2

\* ------------------------------------------------------------------ claims: row binder

\* the variant Schema::parse stores for a column of the given type
C10_TagOf(ty) ==
    CASE ty.name = "NText" -> "Image"
      [] ty.name = "SmallDateTime" -> "DateTime"
      [] OTHER -> ty.name

\* C10: whenever Schema.parse returns, the Row has exactly |schema.columns|
\* values and value i belongs to schema column i (it is None, or the value
\* decoded for the type of column i, and None for a computed column), whatever
\* column_count, the computed columns, the nulls and the variable block are.
C10_RowLength ==
    sp_row.tag = "Ok" =>
        /\ Len(sp_row.val.values) = Len(sp_columns)
        /\ \A k \in 1..Len(sp_row.val.values) :
              sp_row.val.values[k].tag = "Some" =>
                  /\ k <= Len(sp_columns)
                  /\ ~sp_columns[k].computed
                  /\ sp_row.val.values[k].val.tag = C10_TagOf(sp_columns[k].data_type)

\* a returned row of three columns: a computed one, one past column_count or
\* null, and a decoded variable-length one
C10_Witness ==
    /\ sp_row.tag = "Ok"
    /\ Len(sp_columns) = 3
    /\ sp_columns[1].computed
    /\ sp_record.column_count = 1
    /\ sp_record.var_length_columns.tag = "Some"
    /\ sp_row.val.values[2].tag = "Some"
    /\ sp_row.val.values[2].val.tag = "VarBinary"
    /\ sp_row.val.values[3].tag = "None"

\* Schema::parse run to its end or to its failure
RECURSIVE C11_Run(_, _, _)
C11_Run(columns, record, st) ==
    IF st.status = "panic" \/ st.i >= Len(columns) THEN st
    ELSE C11_Run(columns, record, SchemaParseColumn(columns, record, st))

C11_NotComputed(k) == ~sp_columns[k].computed

\* the indices of the columns that are not computed, of the first n columns
C11_Kept(n) == SelectSeq([k \in 1..n |-> k], C11_NotComputed)

\* C11: a computed column changes nothing: its cell stays None and after any
\* number of columns the fixed-data cursor, the bit cursor, the variable-column
\* counter, the null-bitmap counter, the cells of the other columns and the
\* failure, if any, are those of Schema.parse run on the same record with the
\* computed columns removed from the schema.
C11_ComputedIsFrame ==
    LET n == IF sp.status = "panic" THEN sp.i + 1 ELSE sp.i
        kept == C11_Kept(n)
        cols == [j \in 1..Len(kept) |-> sp_columns[kept[j]]]
        r == C11_Run(cols, sp_record, SchemaParseStart(cols))
    IN  /\ \A k \in 1..n : sp_columns[k].computed => sp.values[k] = None
        /\ r.pos = sp.pos
        /\ r.bit_parser = sp.bit_parser
        /\ r.var_column_idx = sp.var_column_idx
        /\ r.null_bit_idx = sp.null_bit_idx
        /\ (r.status = "panic") <=> (sp.status = "panic")
        /\ \A j \in 1..Len(kept) : r.values[j] = sp.values[kept[j]]

\* a returned row whose second column is a computed variable-length column
\* between a decoded fixed column and the column that decodes the record's
\* first variable column
C11_Witness ==
    /\ sp_row.tag = "Ok"
    /\ Len(sp_columns) = 3
    /\ sp_columns[2].computed /\ IsVarLength(sp_columns[2].data_type)
    /\ ~sp_columns[1].computed /\ ~sp_columns[3].computed
    /\ sp_record.var_length_columns.tag = "Some"
    /\ sp_row.val.values[1] = Some(Val("TinyInt", 42))
    /\ sp_row.val.values[2] = None
    /\ sp_row.val.values[3].tag = "Some"
    /\ sp_row.val.values[3].val.tag = "VarBinary"
    /\ sp_row.val.values[3].val.v.data.bytes = << 65, 66 >>

\* the value of null_bit_idx when column k (1-based) is reached: the number of
\* columns before it that are not computed
C12_CounterAt(k) == Cardinality({ j \in 1..(k - 1) : ~sp_columns[j].computed })

\* column k is not computed and is reached with null_bit_idx >= column_count
C12_Past(k) == ~sp_columns[k].computed /\ C12_CounterAt(k) >= sp_record.column_count

C12_NotPast(k) == ~C12_Past(k)

\* C12: null_bit_idx is incremented exactly once per column that is not
\* computed, null or not; a column that is not computed and is reached with
\* null_bit_idx >= record.column_count is left None and reads neither the null
\* bitmap (no failure comes from it) nor the fixed-data cursor nor the variable
\* block: the cursors, the variable-column counter and the other cells are
\* those of the parse run without these columns.
C12_CatalogDrift ==
    LET n == IF sp.status = "panic" THEN sp.i + 1 ELSE sp.i
        kept == SelectSeq([k \in 1..n |-> k], C12_NotPast)
        cols == [j \in 1..Len(kept) |-> sp_columns[kept[j]]]
        r == C11_Run(cols, sp_record, SchemaParseStart(cols))
    IN  /\ sp.null_bit_idx = C12_CounterAt(sp.i + 1)
        /\ \A k \in 1..n : C12_Past(k) => sp.values[k] = None
        /\ sp.status = "panic" => ~C12_Past(sp.i + 1)
        /\ r.pos = sp.pos
        /\ r.bit_parser = sp.bit_parser
        /\ r.var_column_idx = sp.var_column_idx
        /\ (r.status = "panic") <=> (sp.status = "panic")
        /\ \A j \in 1..Len(kept) : r.values[j] = sp.values[kept[j]]

\* a returned row of a record with column_count 1, unread fixed data, a null
\* bitmap and a variable block: the first column is decoded, the fixed and the
\* variable column after it are past column_count
C12_Witness ==
    /\ sp_row.tag = "Ok"
    /\ Len(sp_columns) = 3
    /\ \A k \in 1..3 : ~sp_columns[k].computed
    /\ sp_record.column_count = 1
    /\ sp_record.null_bitmap.tag = "Some"
    /\ sp_record.var_length_columns.tag = "Some"
    /\ sp_columns[1].data_type = Ty("Bit")
    /\ sp_columns[2].data_type = Ty("Bit")
    /\ IsVarLength(sp_columns[3].data_type)
    /\ sp_row.val.values = << Some(Val("Bit", FALSE)), None, None >>
    /\ sp.null_bit_idx = 3
    /\ sp.var_column_idx = 0
    /\ sp.bit_parser.read_bits = 1

\* ------------------------------------------------------------------ claims: row binder, every SQL type

\* the column the last turn of the loop was about (1-based), decoded or failed
C13_Last == IF sp.status = "panic" THEN sp.i + 1 ELSE sp.i

\* a decoded value that holds no byte and no LOB pointer
C13_EmptyInline(v) ==
    CASE v.tag \in {"VarBinary"} -> v.v.kind = "Value" /\ v.v.data.bytes = << >>
      [] v.tag \in {"NVarChar"} -> v.v.kind = "Value" /\ v.v.data = << >>
      [] v.tag \in {"VarChar", "SqlVariant"} -> v.v.bytes = << >>
      [] v.tag \in {"SysName"} -> v.v = << >>
      [] v.tag \in {"Image", "NText"} -> v.v = None
      [] OTHER -> FALSE

\* C13: when a non-null column of a variable-length type is decoded from a
\* record without HAS_VAR_LENGTH_COLUMNS, Schema.parse does not fail at it,
\* stores Some(empty inline value) in its cell and does not advance the
\* variable-column counter.
C13_MissingVarBlock ==
    sp_record.var_length_columns.tag = "None" =>
        /\ sp.var_column_idx = 0
        /\ \A k \in 1..C13_Last :
              (/\ IsVarLength(sp_columns[k].data_type)
               /\ k <= sp_record.column_count
               /\ IsColumnNull(sp_record, k - 1) = Some(FALSE))
              => /\ ~(sp.status = "panic" /\ k = sp.i + 1)
                 /\ sp.values[k].tag = "Some"
                 /\ C13_EmptyInline(sp.values[k].val)

\* a returned row of two variable-length columns decoded from a record that has
\* a null bitmap and no variable block
C13_Witness ==
    /\ sp_row.tag = "Ok"
    /\ sp_record.var_length_columns.tag = "None"
    /\ sp_record.null_bitmap.tag = "Some"
    /\ Len(sp_columns) = 2
    /\ sp_columns[1].data_type = Ty("NText")
    /\ sp_columns[2].data_type = TyMax("VarChar", Some(1))
    /\ sp_row.val.values[1].tag = "Some"
    /\ sp_row.val.values[2].tag = "Some"

\* ------------------------------------------------------------------ claims: bit columns

\* bit (k mod 8), counted from the least significant bit, of fixed-data byte
\* floor(k / 8)
C14_BitOf(k) == (sp_record.fixed_data.bytes[(k \div 8) + 1] \div (2 ^ (k % 8))) % 2 = 1

\* the schema is consecutive Bit columns, none null in the record
C14_AllBits ==
    /\ \A k \in 1..Len(sp_columns) :
          sp_columns[k].data_type = Ty("Bit") /\ ~sp_columns[k].computed
    /\ sp_record.null_bitmap.tag = "None"
    /\ sp_record.column_count >= Len(sp_columns)

\* C14: for a record whose schema is n consecutive non-null Bit columns the
\* k-th decoded value (0-based) is bit (k mod 8), counted from the least
\* significant bit, of fixed-data byte floor(k / 8), and exactly ceil(n / 8)
\* bytes are consumed from the fixed-data cursor (after each column as well as
\* at the end).
C14_BitPacking ==
    (C14_AllBits /\ sp.status # "panic") =>
        /\ \A k \in 0..(sp.i - 1) : sp.values[k + 1] = Some(Val("Bit", C14_BitOf(k)))
        /\ sp.pos = (sp.i + 7) \div 8
        /\ sp_row.tag = "Ok" => sp.pos = (Len(sp_columns) + 7) \div 8

\* nine Bit columns decoded from the fixed data 0b10101010 0b00000001
C14_Witness ==
    /\ C14_AllBits
    /\ sp_row.tag = "Ok"
    /\ Len(sp_columns) = 9
    /\ SubSeq(sp_record.fixed_data.bytes, 1, 2) = << 170, 1 >>
    /\ sp_row.val.values =
          [k \in 1..9 |-> Some(Val("Bit", k \in {2, 4, 6, 8, 9}))]
    /\ sp.pos = 2

\* C15: the decoded value's tag matches the column's SQL type: the SqlValue
\* SqlType.parse or SqlType.parse_var_length returns for a column of type t is
\* the variant of the same name as t (an NText column yields an NText value, a
\* SmallDateTime column a SmallDateTime value).
C15_TagMatchesType ==
    \A k \in 1..Len(sp.values) :
        sp.values[k].tag = "Some" => sp.values[k].val.tag = sp_columns[k].data_type.name

\* the column Schema::parse failed at
C16_FailedColumn == sp_columns[sp.i + 1]

\* the failed column is a VarBinary(Some(max)) or VarChar(Some(max)) column, not
\* null, whose variable column in the record is inline and longer than max
C16_FailedAtOversize ==
    /\ sp.status = "panic"
    /\ C16_FailedColumn.data_type.name \in {"VarBinary", "VarChar"}
    /\ C16_FailedColumn.data_type.max.tag = "Some"
    /\ ~C16_FailedColumn.computed
    /\ sp.null_bit_idx < sp_record.column_count
    /\ IsColumnNull(sp_record, sp.null_bit_idx) = Some(FALSE)
    /\ sp_record.var_length_columns.tag = "Some"
    /\ LET got == VarLengthColumnsGet(sp_record.var_length_columns.val, sp.var_column_idx)
       IN  /\ got.tag # "Panic"
           /\ ~got.val.complex
           /\ Len(got.val.data.bytes) > C16_FailedColumn.data_type.max.val

\* C16: an inline variable-length payload longer than the column's declared
\* maximum is still decoded, for VarBinary(Some(max)) and VarChar(Some(max))
\* alike, and the row's decoding continues: Schema.parse never fails at such a
\* column.
C16_OversizeTolerated == ~C16_FailedAtOversize

\* ------------------------------------------------------------------ claims: schema construction

\* a column of the schema from_col_par returned
C17_Columns == schema_out.val.columns

\* C17: whenever Schema.from_col_par returns, the column vector holds one
\* column per input pair (each column as often as pairs build it) and is sorted
\* ascending by col_id: columns[i].idx <= columns[i+1].idx for all i.
C17_SortedByColId ==
    schema_out.tag = "Ok" =>
        /\ Len(C17_Columns) = Len(col_info)
        /\ \A k \in 1..Len(col_info) :
              LET c == ColumnTypeOf(col_info[k]).val
              IN  Cardinality({ j \in 1..Len(C17_Columns) : C17_Columns[j] = c })
                  = Cardinality({ j \in 1..Len(col_info) : ColumnTypeOf(col_info[j]).val = c })
        /\ \A i \in 1..(Len(C17_Columns) - 1) : C17_Columns[i].idx <= C17_Columns[i + 1].idx

\* a schema built from three pairs given in descending col_id order
C17_Witness ==
    /\ schema_out.tag = "Ok"
    /\ Len(col_info) = 3
    /\ col_info[1].col.col_id = 3 /\ col_info[2].col.col_id = 2 /\ col_info[3].col.col_id = 1
    /\ col_info[2].ty.name = "varchar"
    /\ C17_Columns[1].idx = 1 /\ C17_Columns[2].idx = 2 /\ C17_Columns[3].idx = 3
    /\ C17_Columns[2].data_type = TyMax("VarChar", Some(4))

\* C18: Schema.from_col_par produces no Schema whenever the status of an input
\* column has the SPARSE, COLUMN_SET, XML_DOCUMENT or FILESTREAM flag set.
C18_UnsupportedRefused ==
    (\E k \in 1..Len(col_info) :
        \E flag \in {SPARSE, COLUMN_SET, XML_DOCUMENT, FILESTREAM} :
            StatusContains(col_info[k].col.status, flag))
    => schema_out.tag # "Ok"

\* ------------------------------------------------------------------ claims: catalog

\* the first row-set with the given id_major and id_minor = 1
C19_RowSet(id_major) ==
    FirstAt(row_sets, { k \in 1..Len(row_sets) :
                          row_sets[k].id_major = id_major /\ row_sets[k].id_minor = 1 })

\* the first alloc-unit with owner_id = row_set.row_set_id and type InRowData
C19_Owner(row_set) ==
    FirstAt(alloc_units, { k \in 1..Len(alloc_units) :
                             /\ alloc_units[k].owner_id = row_set.row_set_id
                             /\ alloc_units[k].ty = "InRowData" })

\* C19: for each catalog table (id_major 34, 41, 50, 74) SystemTables.parse
\* takes the first row-set with that id_major and id_minor = 1 and loads the
\* rows from pg_first of the alloc-unit owned by that row-set: the first
\* alloc-unit with owner_id = row_set.row_set_id and type InRowData, the one
\* allocation_unit_for_partition returns for that row-set.
C19_BootstrapByOwner ==
    \A n \in 1..Len(boot.loaded) :
        boot.loaded[n].id_major \in {34, 41, 50, 74} =>
            LET row_set == C19_RowSet(boot.loaded[n].id_major)
            IN  /\ row_set.tag = "Some"
                /\ C19_Owner(row_set.val).tag = "Some"
                /\ C19_Owner(row_set.val) = Some(AllocationUnitForPartition(alloc_units, row_set.val).val)
                /\ boot.loaded[n].pg = C19_Owner(row_set.val).val.pg_first.val

\* the row-sets p with id_major = table.id and id_minor <= 1, in row-set order
C20_Parts ==
    SelectSeq(row_sets, LAMBDA p : p.id_major = db_out.tbl.val.id /\ p.id_minor <= 1)

\* the alloc-units with owner_id = p.row_set_id and type InRowData, by position
C20_Units(p) ==
    { k \in 1..Len(alloc_units) :
        alloc_units[k].owner_id = p.row_set_id /\ alloc_units[k].ty = "InRowData" }

\* the non-null pg_first pointers of the first such alloc-unit of each of the
\* first n row-sets of C20_Parts
RECURSIVE C20_Pointers(_)
C20_Pointers(n) ==
    IF n = 0 THEN << >>
    ELSE LET pg == FirstAt(alloc_units, C20_Units(C20_Parts[n])).val.pg_first
         IN  C20_Pointers(n - 1) \o (IF pg.tag = "Some" THEN << pg.val >> ELSE << >>)

\* C20: for every Table returned by DB.table / DB.tables, partition_pointer is,
\* in row-set order, the list of the non-null pg_first pointers of
\* allocation_unit_for_partition(p) over the row-sets p with id_major =
\* table.id and id_minor <= 1; each alloc-unit used has type InRowData and
\* owner_id = p.row_set_id, and a row-set whose alloc-unit has a null pg_first
\* contributes no entry.
C20_PartitionPointers ==
    db_out.res.tag = "Some" =>
        /\ \A n \in 1..Len(C20_Parts) : C20_Units(C20_Parts[n]) # {}
        /\ db_out.res.val.partition_pointer = C20_Pointers(Len(C20_Parts))

\* table "t" with two row-sets: the alloc-unit of the first one has a null
\* pg_first, that of the second one comes behind a LobData unit of the same
\* owner
C20_Witness ==
    /\ db_out.op = "table" /\ db_out.name = "t"
    /\ db_out.res.tag = "Some"
    /\ row_sets = << RowSet(8, 100, 1), RowSet(7, 100, 0) >>
    /\ alloc_units = << AllocUnit(18, "LobData", 7, Some(Ptr(1, 31))),
                        AllocUnit(19, "InRowData", 8, None),
                        AllocUnit(17, "InRowData", 7, Some(Ptr(1, 30))) >>
    /\ db_out.res.val.partition_pointer = << Ptr(1, 30) >>
    /\ Len(db_out.res.val.schema.columns) = 2

\* ------------------------------------------------------------------ claims: LOB reader

\* the children of a node of the pointer tree, in entry-index order, each with
\* the size / offset stored in the node's entry: the entries from index 0 up
\* to the first one that does not resolve
RECURSIVE C21_Children(_, _)
C21_Children(node, idx) ==
    LET at == IF node.entry.kind = "LargeRootYukon" THEN 20 + 12 * idx ELSE 16 + 16 * idx
        stored == ReadLE(node.entry.fixed, at,
                         IF node.entry.kind = "LargeRootYukon" THEN 4 ELSE 8)
        child == LobSubEntry(node.entry, idx)
    IN  IF child.tag # "Some" THEN << >>
        ELSE << [offs |-> stored, entry |-> child.val.entry] >> \o C21_Children(node, idx + 1)

C21_IsLeaf(node) == node.entry.kind \in {"SmallRoot", "Data"}
C21_IsNode(node) == ~C21_IsLeaf(node)

\* the nodes at the next depth, parent by parent
RECURSIVE C21_Below(_)
C21_Below(level) ==
    IF level = << >> THEN << >>
    ELSE (IF C21_IsLeaf(Head(level)) THEN << >> ELSE C21_Children(Head(level), 0))
         \o C21_Below(Tail(level))

\* the leaves of the tree depth by depth, from the nodes of one depth on
RECURSIVE C21_ByDepth(_)
C21_ByDepth(level) ==
    IF level = << >> THEN << >>
    ELSE LET leaves == SelectSeq(level, C21_IsLeaf)
         IN  [k \in 1..Len(leaves) |-> [offs |-> leaves[k].offs, data |-> leaves[k].entry.data]]
             \o C21_ByDepth(C21_Below(level))

\* the root of the tree, carrying data.len()
C21_Root ==
    LET root == LobEntryParse(ProviderGetRecord(LobRoot.ptr).val).val
    IN  [offs |-> Len(root.data), entry |-> root]

\* C21: LobPointer.read emits the extents in breadth-first order of the
\* pointer tree: the leaves of depth d before those of depth d + 1, the leaves
\* under one parent in entry-index order, a leaf child with the size / offset
\* of its parent's entry and a leaf root with data.len(); a LargeRootYukon root
\* with cur_links = 2 and Data children of 3000 and 5000 bytes gives
\* [(3000, b0), (5000, b1)] and LobDataBlocks.length() = 8000.
C21_BreadthFirst ==
    lob_read.res.tag = "Some" =>
        /\ lob_read.res.val = C21_ByDepth(<< C21_Root >>)
        /\ store = LobExampleStore =>
              /\ lob_read.res.val = << [offs |-> 3000, data |-> LobExampleData(3000)],
                                       [offs |-> 5000, data |-> LobExampleData(5000)] >>
              /\ LobLength(lob_read.res.val) = 8000

\* a root with an Internal child at entry 0 and a Data child at entry 1, the
\* Internal child having the same leaf twice: the leaf of depth 1 comes first
C21_Witness ==
    /\ lob_read.status = "done"
    /\ lob_read.res = Some(<< [offs |-> 5000, data |-> << 70 >>],
                              [offs |-> 3000, data |-> << 70 >>],
                              [offs |-> 5000, data |-> << 70 >>] >>)
    /\ C21_Root.entry.kind = "LargeRootYukon"
    /\ LobLength(lob_read.res.val) = 3

\* every entry with index < cur_links of every node of the tree, from the
\* nodes of one depth on, resolves to a LOB entry
RECURSIVE C22_AllResolve(_)
C22_AllResolve(level) ==
    \/ level = << >>
    \/ /\ \A k \in 1..Len(level) :
             C21_IsNode(level[k]) =>
                \A idx \in 0..(level[k].entry.cur_links - 1) :
                   LobSubEntry(level[k].entry, idx).tag = "Some"
       /\ C22_AllResolve(C21_Below(level))

\* C22: if anywhere in the tree reachable from the root a child entry with
\* index < cur_links cannot be resolved (get_record returns None, or the
\* child's LOB type is Null or unknown), LobPointer.read returns None: it
\* never returns Some with an extent list that omits that child or its later
\* siblings.
C22_AbortsOnUnresolved ==
    lob_read.res.tag = "Some" => C22_AllResolve(<< C21_Root >>)

\* C23: for every LargeRootYukon and Internal node accepted by LobEntry.parse,
\* read_idx(i) returns a record pointer if and only if i < cur_links: None for
\* every i >= cur_links and Some, without failing, for every i < cur_links,
\* whatever the length of the node's fixed data and the content of the entry.
C23_ReadIdxDefined ==
    call.op = "read_idx" =>
        call.res.tag = IF call.arg.val.idx < call.arg.val.node.cur_links THEN "Some"
                       ELSE "None"

\* the walk has left the part of its state space that is followed
C25_Outgrown ==
    \/ Len(lob_read.data_blocks) > MaxLobBlocks
    \/ Len(lob_read.new_entries) > MaxLobEntries

\* C25: for every finite page store LobPointer.read terminates (its worklist
\* eventually becomes empty), also when an Internal or LargeRootYukon node has
\* an entry that points to itself or to one of its ancestors.
C25_WalkTerminates ==
    (lob_read.status = "running") ~> (lob_read.status \in {"done", "panic"} \/ C25_Outgrown)

\* ------------------------------------------------------------------ claims: termination of the linked scan

\* C24: for every finite page store, repeatedly pulling the linked record
\* iterator (RawPage.records / into_records) eventually reaches
\* end-of-iteration, also when next_page_ptr links form a cycle.
C24_ScanTerminates == <>(status \in {"done", "panic"})

\* ------------------------------------------------------------------ claims: record layout

\* the length L of the fixed data: p_min_len - 1 on index pages, the length
\* field - 4 otherwise
C26_L ==
    IF rec_in.is_index THEN rec_in.p_min_len - 1 ELSE ReadU16(rec_in.data, 2) - 4

\* the offset just behind the last byte of the returned fixed_data slice
C26_FixedEnd == rec_out.val.fixed_data.pos + Len(rec_out.val.fixed_data.bytes)

\* C26: for every record returned by Record.parse, on index and non-index
\* pages alike, fixed_data has length L and column_count is read from the two
\* bytes that immediately follow the last byte of the returned fixed_data
\* slice, so fixed_data never overlaps the column-count field.
C26_LayoutConsistent ==
    rec_out.tag = "Some" =>
        /\ Len(rec_out.val.fixed_data.bytes) = C26_L
        /\ ColumnCountOffset(rec_in.is_index, rec_in.p_min_len, C26_L) = C26_FixedEnd
        /\ rec_out.val.column_count = ReadU16(rec_in.data, C26_FixedEnd)

\* ------------------------------------------------------------------ claims: null columns

\* the columns of sp_columns the loop has been through (the last one failed
\* when the parse failed)
C27_Seen == IF sp.status = "panic" THEN sp.i + 1 ELSE sp.i

\* column k is not computed, is within column_count and has its null bit set
C27_Null(k) ==
    /\ ~sp_columns[k].computed
    /\ C12_CounterAt(k) < sp_record.column_count
    /\ IsColumnNull(sp_record, C12_CounterAt(k)) = Some(TRUE)

\* column k is a variable-length column that is decoded from an entry of the
\* record's variable block
C27_ReadsEntry(k) ==
    /\ ~sp_columns[k].computed
    /\ C12_CounterAt(k) < sp_record.column_count
    /\ IsColumnNull(sp_record, C12_CounterAt(k)) = Some(FALSE)
    /\ IsVarLength(sp_columns[k].data_type)
    /\ sp_record.var_length_columns.tag = "Some"

\* the number of variable entries read before column k
C27_EntriesBefore(k) == Cardinality({ j \in 1..(k - 1) : C27_ReadsEntry(j) })

\* the state of the loop after the first k columns
C27_After(k) ==
    LET cols == SubSeq(sp_columns, 1, k)
    IN  C11_Run(cols, sp_record, SchemaParseStart(cols))

\* C27: a column whose null bit is set consumes nothing but its null bit: the
\* turn of the loop for it leaves the fixed-data cursor, the bit cursor and the
\* variable-column counter as they were, leaves the cell None and does not
\* fail; the variable-column counter is the number of variable entries read so
\* far, so the k-th variable-length column that reads an entry is decoded from
\* entry k-1.
C27_NullConsumesNothing ==
    /\ \A k \in 1..C27_Seen :
         C27_Null(k) =>
            /\ C27_After(k).status = "loop"
            /\ C27_After(k).pos = C27_After(k - 1).pos
            /\ C27_After(k).bit_parser = C27_After(k - 1).bit_parser
            /\ C27_After(k).var_column_idx = C27_After(k - 1).var_column_idx
            /\ C27_After(k).null_bit_idx = C27_After(k - 1).null_bit_idx + 1
            /\ sp.values[k] = None
    /\ sp.var_column_idx = C27_EntriesBefore(sp.i + 1)
    /\ \A k \in 1..sp.i :
         C27_ReadsEntry(k) =>
            LET got == VarLengthColumnsGet(sp_record.var_length_columns.val,
                                           C27_EntriesBefore(k))
            IN  /\ got.tag = "Some"
                /\ sp.values[k] = Some(ParseVarLength(sp_columns[k].data_type,
                                                      got.val.complex, got.val.data).val)

\* a returned row whose first column (fixed) and second column (variable) are
\* null and whose third column is the first variable-length column that is not
\* null: it is decoded from entry 0, the fixed-data cursor never moved
C27_Witness ==
    /\ sp_row.tag = "Ok"
    /\ Len(sp_columns) = 3
    /\ sp_columns[1] = [data_type |-> Ty("TinyInt"), computed |-> FALSE]
    /\ sp_columns[2] = [data_type |-> TyMax("VarBinary", Some(1)), computed |-> FALSE]
    /\ sp_columns[3] = [data_type |-> TyMax("VarChar", Some(1)), computed |-> FALSE]
    /\ C27_Null(1) /\ C27_Null(2) /\ C27_ReadsEntry(3)
    /\ sp_row.val.values[1] = None
    /\ sp_row.val.values[2] = None
    /\ sp_row.val.values[3] # None
    /\ sp.pos = 0
    /\ sp.var_column_idx = 1
    /\ sp.null_bit_idx = 3

\* ------------------------------------------------------------------ claims: slot bounds

\* C28: for every 8192-byte page and every idx < slot_count, RawPage.record(idx)
\* returns a record or None and never fails, also when slot_count exceeds the
\* number of 2-byte entries that fit in the page or the stored slot offset
\* points at, beyond or just before the end of the page.
C28_SlotBounds ==
    (call.op = "record" /\ call.arg.val.idx < call.arg.val.slot_count)
        => call.res.tag \in {"Some", "None"}

\* the lookups of C28 whose slot entry lies inside the page and whose stored
\* offset leaves room for a record header return a record or None
C28_InsidePage ==
    (/\ call.op = "record"
     /\ call.arg.val.idx < PAGE_SIZE \div 2
     /\ call.arg.val.offset <= PAGE_SIZE - 8)
        => call.res.tag \in {"Some", "None"}

\* ------------------------------------------------------------------ claims: degraded scan from a start page

\* the page, slot and row of the yielded rows
C29_Rows(yielded) ==
    [i \in 1..Len(yielded) |->
        [page |-> yielded[i].page, slot |-> yielded[i].slot, row |-> yielded[i].row]]

\* a page of file start.file_id with page_id >= start.page_id
C29_FromStart(ptr) ==
    /\ ptr.file_id = call.arg.val.file_id
    /\ ptr.page_id >= call.arg.val.page_id

C29_RowFromStart(r) == C29_FromStart(r.page)

\* the rows the scan_db before yielded from the pages from start on
C29_Expected == SelectSeq(C29_Rows(call.res.out), C29_RowFromStart)

\* C29: Table.scan_db_from(start) yields exactly the rows scan_db yields from
\* the pages of file start.file_id with page_id >= start.page_id, in ascending
\* page_id then slot order (at any moment a prefix of them, all of them when it
\* has ended, and it fails exactly when scan_db fails); every page it reads is
\* partition_pointer[0] or a page of that file with page_id >= start.page_id.
C29_ScanFromStart ==
    op = "scan_db_from" =>
        /\ Len(out) <= Len(C29_Expected)
        /\ C29_Rows(out) = SubSeq(C29_Expected, 1, Len(out))
        /\ status = "done" => C29_Rows(out) = C29_Expected
        /\ (status = "panic") <=> (call.res.status = "panic")
        /\ \A i, j \in 1..Len(out) :
              i < j => \/ out[i].page.page_id < out[j].page.page_id
                       \/ /\ out[i].page = out[j].page
                          /\ out[i].slot < out[j].slot
        /\ gr.op = "get" => gr.ptr = partition_pointer[1] \/ C29_FromStart(gr.ptr)
        /\ \A i \in 1..Len(visited) : C29_FromStart(visited[i])

\* a scan_db_from that has ended, started at page 1 of file 1 behind a
\* selected page 0 and in front of a selected page 2, on a store whose file 2
\* holds a selected page too: it yielded the two rows of page (1, 2) of the six
\* rows of scan_db
C29_Witness ==
    /\ op = "scan_db_from" /\ status = "done"
    /\ call.arg.val = Ptr(1, 1)
    /\ Len(call.res.out) = 6
    /\ Len(out) = 2
    /\ out[1].page = Ptr(1, 2) /\ out[1].slot = 0
    /\ out[2].page = Ptr(1, 2) /\ out[2].slot = 1
    /\ ProviderGet(Ptr(1, 1)).tag = "None"

\* ------------------------------------------------------------------ claims: decoder entry points

\* the data of the call decodes for every type that has an arm: wide fixed
\* data, or an empty variable cell that is not complex
C30_Decodable ==
    \/ call.op = "parse" /\ call.arg.val.bytes = WideFixed
    \/ call.op = "parse_var_length" /\ call.arg.val.bytes = << >> /\ ~call.arg.val.complex
    \/ call.op = "schema"

\* C30: is_var_length() partitions the SqlType set consistently with the two
\* decoders: SqlType.parse has an arm for t exactly when t.is_var_length() is
\* false, SqlType.parse_var_length exactly when it is true, the other entry
\* point fails, and Schema.parse, which dispatches on is_var_length, never
\* reaches the rejecting arm.
C30_EntryPoints ==
    call.op # "none" =>
        /\ call.op = "parse" => (call.res.rejected <=> IsVarLength(call.arg.val.ty))
        /\ call.op = "parse_var_length" =>
              (call.res.rejected <=> ~IsVarLength(call.arg.val.ty))
        /\ call.op = "schema" => ~call.res.rejected
        /\ call.res.rejected => call.res.tag = "Panic"
        /\ (~call.res.rejected /\ C30_Decodable) => call.res.tag = "Ok"

\* Schema.parse of a one-column schema of type SqlVariant, the last arm of
\* parse_var_length: the cell is handed to parse_var_length and decoded
C30_Witness ==
    /\ call.op = "schema"
    /\ call.arg.val.ty = Ty("SqlVariant")
    /\ IsVarLength(call.arg.val.ty)
    /\ ~call.res.rejected
    /\ call.res.tag = "Ok"

====
